---- MODULE Spec2Model ----
(***************************************************************************)
(* A model of Exim's GnuTLS glue (src/tls-gnu.c): the Diffie-Hellman       *)
(* parameter cache, the credential resolver, the server and client start   *)
(* operations with their handshake loop and SNI callback, peer identity    *)
(* extraction and verification, and session teardown.                      *)
(*                                                                         *)
(* SpecDH runs init_server_dh step by step in several processes that share *)
(* one spool directory.  Spec runs the session operations of one process.  *)
(***************************************************************************)
EXTENDS Integers, Sequences, FiniteSets, TLC

VARIABLES
  \* ---- spool directory and per-process D-H state (init_server_dh)
  cache,             \* the file at <spool>/gnutls-params-<bits>
  cacheInit,         \* what that file was before any process ran
  dh_server_params,  \* per process: the static gnutls_dh_params_t
  dpc,               \* per process: position in tls_set_remaining_x509/init_server_dh
  temp,              \* per process: the mkstemp() file of the current run, its name
                     \* and the current directory it was created from
  mbuf,              \* per process: m.data, the exported PEM block
  dh_rc,             \* per process: what the D-H part last returned
  dh_err,            \* per process: the tls_error() label of the current run
  opened,            \* per process: what open()/fread() saw in the current run
  generated,         \* per process: gnutls_dh_params_generate2 ran in the current run
  x509_dh,           \* per process: D-H parameters set on the server x509_cred
  \* ---- the serving process (process Self): statics and Exim globals
  state_server,      \* static exim_gnutls_state_st state_server
  state_client,      \* static exim_gnutls_state_st state_client
  current_global_tls_state,   \* "server", "client" or NULL
  exim_gnutls_base_init_done,
  tls_active, tls_bits, tls_cipher, tls_peerdn, tls_certificate_verified,
  tls_channelbinding_b64, tls_sni,
  receive,           \* receive_getc, receive_ungetc, receive_feof, ...
  sigalrm_seen,
  smtp_open,         \* smtp_in and smtp_out have not been fclose()d
  \* ---- the engine side of the two sessions
  bound,             \* per role: the credential set gnutls_credentials_set bound
  peer,              \* per role: what the peer presented in the handshake
  \* ---- the operation in progress
  cfg,               \* the configured settings of this process
  pc,                \* position in the operation in progress
  role,              \* whose start is in progress
  caller,            \* who called the credential resolver: tls_init or the callback
  call,              \* arguments and locals of the operation in progress
  op, rc, err,       \* the operation last called, what it returned, its error label
  trace,             \* what the operation in progress did, in order
  starts,            \* number of start operations called so far
  parses,            \* per role: certificate parses since the state was reset
  \* ---- the record layer of the established session (tls_getc, tls_read, tls_write)
  net_tls,           \* plaintext the peer has sent in TLS records, not yet received
  net_smtp,          \* bytes the peer has sent in clear after closing TLS, not yet read
  xfer_data,         \* the bytes in state->xfer_buffer
  got,               \* what the calls of receive_getc returned, in order
  fed,               \* the bytes given to dkim_exim_verify_feed, in order
  bulk,              \* the bytes the calls of tls_read put into their buffers, in order
  rd,                \* the last call of tls_read: its len, what gnutls_record_recv gave
                     \* it, whether it called record_io_error, what it returned
  wr,                \* the last call of tls_write: its len, its sends, what it returned
  \* ---- vaguely_random_number
  rnd,               \* the call in progress or last made: argument, locals, result
  \* ---- tls_close
  closed             \* the call of tls_close made since the last start, if any

dhVars == <<cache, cacheInit, dh_server_params, dpc, temp, mbuf, dh_rc, dh_err,
            opened, generated, x509_dh>>

factVars == <<tls_active, tls_bits, tls_cipher, tls_peerdn, tls_certificate_verified,
              tls_channelbinding_b64, tls_sni>>

stateVars == <<state_server, state_client, current_global_tls_state,
               exim_gnutls_base_init_done, receive, sigalrm_seen, smtp_open, bound, peer>>

opVars == <<pc, role, caller, call, op, rc, err, trace, starts, parses>>

sessVars == <<factVars, stateVars, opVars, cfg>>

ioVars == <<net_tls, net_smtp, xfer_data, got, fed, bulk, rd, wr>>

auxVars == <<ioVars, rnd, closed>>

vars == <<dhVars, sessVars, auxVars>>

\* ---------------------------------------------------------------- bounds
NProcs == 2
MaxStarts == 2
MaxHandshakeSteps == 2
MaxFd == 2

Procs == 1..NProcs

\* Parameter sets are told apart by who generated them: the one process p
\* generates is p, the one in a cache file older than every process is CachedVal.
GenVal(p) == p

CachedVal == NProcs + 1

ParamVals == 1..CachedVal

\* ------------------------------------------------------------ result codes
OK == "OK"
DEFER == "DEFER"
FAIL == "FAIL"
NULL == "NULL"

\* tls_error(): FAIL with a host (client), DEFER without one (server).
tls_error_always_defer(host) == DEFER

tls_error(host) == IF host # NULL THEN FAIL ELSE DEFER

\* ------------------------------------------------------------------ files
Tok(t, v) == [t |-> t, v |-> v]

AbsentFile == [kind |-> "absent", data |-> <<>>]
RegFile(d) == [kind |-> "reg", data |-> d]
OtherFile == [kind |-> "other", data |-> <<>>]
NotOpened == [kind |-> "none", data |-> <<>>]

\* ------------------------------------------------------------- file names
\* A string is a sequence of pieces: the separator "/", the directives "%s"
\* and "%d" of a format, the six X that mkstemp replaces, and words.
spool_directory == <<"/", "spool">>

\* The directories the process may have as its current directory when it
\* runs init_server_dh: the spool directory or another one.
WorkingDirs == {spool_directory, <<"/">>}

\* string_format(buffer, size, format, ...): each directive takes the next
\* argument.
RECURSIVE string_format(_, _)
string_format(format, args) ==
  IF format = <<>> THEN <<>>
  ELSE IF Head(format) \in {"%s", "%d"}
    THEN Head(args) \o string_format(Tail(format), Tail(args))
    ELSE <<Head(format)>> \o string_format(Tail(format), args)

\* string_copy(s): the same characters in new store; no directive is expanded.
string_copy(s) == s

\* mkstemp(template): the last six characters, which must be XXXXXX, become
\* characters that make the name unique; u stands for them.
mkstemp(template, u) ==
  IF template # <<>> /\ template[Len(template)] = "XXXXXX"
    THEN SubSeq(template, 1, Len(template) - 1) \o <<u>>
    ELSE <<>>

\* "%s/gnutls-params-%d", spool_directory, dh_bits
filename ==
  string_format(<<"%s", "/", "gnutls-params-", "%d">>, <<spool_directory, <<"bits">>>>)

\* temp_fn = string_copy(US "%s.XXXXXXX"); fd = mkstemp(CS temp_fn);
temp_fn(p) == mkstemp(string_copy(<<"%s", ".", "X", "XXXXXX">>), ToString(p))

NoTemp == [exists |-> FALSE, data |-> <<>>, fn |-> <<>>, cwd |-> <<>>]

NullParams == [alloc |-> FALSE, val |-> 0]
EmptyParams == [alloc |-> TRUE, val |-> 0]
Params(v) == [alloc |-> TRUE, val |-> v]

NoDh == [set |-> FALSE, val |-> 0]

\* gnutls_dh_params_export_pkcs3(..., GNUTLS_X509_FMT_PEM, ...): one PEM block.
Pkcs3Export(v) == <<Tok("BEGIN", 0), Tok("DH", v), Tok("END", 0)>>

Newline == <<Tok("NL", 0)>>

PemAt(d, i) ==
  /\ i + 2 <= Len(d)
  /\ d[i].t = "BEGIN"
  /\ d[i + 1].t = "DH"
  /\ d[i + 2].t = "END"

\* A wrong import: the block is accepted only when nothing follows it.
Pkcs3ImportStrict(d) ==
  IF Len(d) = 3 /\ PemAt(d, 1)
    THEN [rc |-> "SUCCESS", val |-> d[2].v]
    ELSE [rc |-> "ERROR", val |-> 0]

\* gnutls_dh_params_import_pkcs3(..., GNUTLS_X509_FMT_PEM): the first complete
\* PEM block of the data, whatever surrounds it; an error when there is none.
Pkcs3Import(d) ==
  IF \E i \in 1..Len(d) : PemAt(d, i)
    THEN LET i == CHOOSE k \in 1..Len(d) :
                    PemAt(d, k) /\ \A j \in 1..(k - 1) : ~PemAt(d, j)
         IN [rc |-> "SUCCESS", val |-> d[i + 1].v]
    ELSE [rc |-> "ERROR", val |-> 0]

\* What init_server_dh writes: the PEM block, then "\n".
IsComplete(d) == \E v \in ParamVals : d = Pkcs3Export(v) \o Newline

Loadable(f) == f.kind = "reg" /\ Pkcs3Import(f.data).rc = "SUCCESS"

\* The states the cache file can be in before a process looks at it.
InitialCaches ==
  { AbsentFile,
    OtherFile,
    RegFile(<<>>),
    RegFile(<<Tok("JUNK", 0)>>),
    RegFile(<<Tok("BEGIN", 0), Tok("DH", CachedVal)>>),
    RegFile(Pkcs3Export(CachedVal) \o Newline) }

InitDH ==
  /\ cache \in InitialCaches
  /\ cacheInit = cache
  /\ dh_server_params = [p \in Procs |-> NullParams]
  /\ dpc = [p \in Procs |-> "idle"]
  /\ temp = [p \in Procs |-> NoTemp]
  /\ mbuf = [p \in Procs |-> <<>>]
  /\ dh_rc = [p \in Procs |-> "none"]
  /\ dh_err = [p \in Procs |-> ""]
  /\ opened = [p \in Procs |-> NotOpened]
  /\ generated = [p \in Procs |-> FALSE]
  /\ x509_dh = [p \in Procs |-> NoDh]

\* --------------------------------------------------------- init_server_dh
\* "return tls_error(label, ..., NULL)" inside init_server_dh.
DhFail(p, label) ==
  /\ dh_rc' = [dh_rc EXCEPT ![p] = tls_error(NULL)]
  /\ dh_err' = [dh_err EXCEPT ![p] = label]
  /\ dpc' = [dpc EXCEPT ![p] = "ret"]

DhGoto(p, where) ==
  /\ dpc' = [dpc EXCEPT ![p] = where]
  /\ UNCHANGED <<dh_rc, dh_err>>

\* tls_set_remaining_x509, server: "if (!dh_server_params) rc = init_server_dh()".
DhEnter(p) ==
  /\ dpc[p] = "idle"
  /\ IF dh_server_params[p] = NullParams
       THEN /\ dpc' = [dpc EXCEPT ![p] = "init"]
            /\ dh_rc' = [dh_rc EXCEPT ![p] = "none"]
       ELSE /\ dpc' = [dpc EXCEPT ![p] = "attach"]
            /\ dh_rc' = [dh_rc EXCEPT ![p] = OK]
  /\ dh_err' = [dh_err EXCEPT ![p] = ""]
  /\ opened' = [opened EXCEPT ![p] = NotOpened]
  /\ generated' = [generated EXCEPT ![p] = FALSE]
  /\ temp' = [temp EXCEPT ![p] = NoTemp]
  /\ mbuf' = [mbuf EXCEPT ![p] = <<>>]
  /\ UNCHANGED <<cache, cacheInit, dh_server_params>>

\* gnutls_dh_params_init, gnutls_sec_param_to_pk_bits, string_format(filename).
DhInit(p) ==
  /\ dpc[p] = "init"
  /\ \/ /\ dh_server_params' = [dh_server_params EXCEPT ![p] = EmptyParams]
        /\ \/ DhGoto(p, "open")
           \/ \E label \in {"gnutls_sec_param_to_pk_bits() failed", "overlong filename"} :
                DhFail(p, label)
     \/ /\ DhFail(p, "gnutls_dh_params_init")
        /\ UNCHANGED dh_server_params
  /\ UNCHANGED <<cache, cacheInit, temp, mbuf, opened, generated, x509_dh>>

\* The cache file does not exist: rc = -1, fall through to regeneration.
DhOpenAbsent(p) ==
  /\ dpc[p] = "open"
  /\ cache.kind = "absent"
  /\ opened' = [opened EXCEPT ![p] = cache]
  /\ DhGoto(p, "mkstemp")
  /\ UNCHANGED <<cache, cacheInit, dh_server_params, temp, mbuf, generated, x509_dh>>

\* What reading an existing cache file ends in: "" when the parameters were
\* imported, else the label of the tls_error() that init_server_dh returns.
\* env is the failure of a system call, "" when every call works.
DhReadOutcome(f, env) ==
  IF env \in {"open failed", "TLS cache stat failed"} THEN env
  ELSE IF f.kind # "reg" THEN "TLS cache not a file"
  ELSE IF env \in {"fdopen(TLS cache stat fd) failed", "malloc failed"} THEN env
  ELSE IF Len(f.data) = 0 \/ env = "fread failed" THEN "fread failed"
  ELSE IF Pkcs3Import(f.data).rc # "SUCCESS" THEN "gnutls_dh_params_import_pkcs3"
  ELSE ""

EnvReadFailures ==
  {"open failed", "TLS cache stat failed", "fdopen(TLS cache stat fd) failed",
   "malloc failed", "fread failed"}

\* The cache file exists: open, fstat, fdopen, malloc, fread, import.  The
\* descriptor names the inode opened, which no process writes to any more.
DhOpenRead(p) ==
  /\ dpc[p] = "open"
  /\ cache.kind # "absent"
  /\ opened' = [opened EXCEPT ![p] = cache]
  /\ \E env \in EnvReadFailures \cup {""} :
       LET out == DhReadOutcome(cache, env) IN
       IF out = ""
         THEN /\ dh_server_params' =
                   [dh_server_params EXCEPT ![p] = Params(Pkcs3Import(cache.data).val)]
              /\ dh_rc' = [dh_rc EXCEPT ![p] = OK]
              /\ dh_err' = [dh_err EXCEPT ![p] = ""]
              /\ dpc' = [dpc EXCEPT ![p] = "ret"]
         ELSE /\ DhFail(p, out)
              /\ UNCHANGED dh_server_params
  /\ UNCHANGED <<cache, cacheInit, temp, mbuf, generated, x509_dh>>

\* "Filename too long to generate replacement", mkstemp(), fchown().
DhMkstemp(p) ==
  /\ dpc[p] = "mkstemp"
  /\ \/ /\ \E cwd \in WorkingDirs :
             temp' = [temp EXCEPT ![p] = [exists |-> TRUE, data |-> <<>>,
                                          fn |-> temp_fn(p), cwd |-> cwd]]
        /\ DhGoto(p, "generate")
     \/ /\ \E label \in {"Filename too long to generate replacement",
                         "Unable to open temp file"} : DhFail(p, label)
        /\ UNCHANGED temp
  /\ UNCHANGED <<cache, cacheInit, dh_server_params, mbuf, opened, generated, x509_dh>>

\* gnutls_dh_params_generate2(dh_server_params, dh_bits).
DhGenerate(p) ==
  /\ dpc[p] = "generate"
  /\ generated' = [generated EXCEPT ![p] = TRUE]
  /\ \/ /\ dh_server_params' = [dh_server_params EXCEPT ![p] = Params(GenVal(p))]
        /\ DhGoto(p, "export")
     \/ /\ DhFail(p, "gnutls_dh_params_generate2")
        /\ UNCHANGED dh_server_params
  /\ UNCHANGED <<cache, cacheInit, temp, mbuf, opened, x509_dh>>

\* gnutls_dh_params_export_pkcs3: the sizing call, malloc, the real call.
DhExport(p) ==
  /\ dpc[p] = "export"
  /\ \/ /\ mbuf' = [mbuf EXCEPT ![p] = Pkcs3Export(dh_server_params[p].val)]
        /\ DhGoto(p, "write")
     \/ /\ \E label \in {"gnutls_dh_params_export_pkcs3(NULL) sizing",
                         "memory allocation failed",
                         "gnutls_dh_params_export_pkcs3() real"} : DhFail(p, label)
        /\ UNCHANGED mbuf
  /\ UNCHANGED <<cache, cacheInit, dh_server_params, temp, opened, generated, x509_dh>>

\* A wrong write: the block goes straight into the cache file.
DhWriteInPlace(p) ==
  /\ dpc[p] = "write"
  /\ \E n \in 1..Len(mbuf[p]) :
       /\ cache' = RegFile(SubSeq(mbuf[p], 1, n))
       /\ temp' = [temp EXCEPT ![p].data = SubSeq(mbuf[p], 1, n)]
       /\ IF n = Len(mbuf[p]) THEN DhGoto(p, "newline") ELSE DhGoto(p, "write")
  /\ UNCHANGED <<cacheInit, dh_server_params, mbuf, opened, generated, x509_dh>>

\* write_to_fd_buf(fd, m.data, m.size): write() after write() into the temp
\* file until all of it is there, or a write fails and sz != m.size.
DhWrite(p) ==
  /\ dpc[p] = "write"
  /\ LET done == Len(temp[p].data) IN
     \/ \E n \in (done + 1)..Len(mbuf[p]) :
          /\ temp' = [temp EXCEPT ![p].data = SubSeq(mbuf[p], 1, n)]
          /\ IF n = Len(mbuf[p]) THEN DhGoto(p, "newline") ELSE DhGoto(p, "write")
     \/ /\ DhFail(p, "TLS cache write D-H params failed")
        /\ UNCHANGED temp
  /\ UNCHANGED <<cache, cacheInit, dh_server_params, mbuf, opened, generated, x509_dh>>

\* write_to_fd_buf(fd, "\n", 1).
DhNewline(p) ==
  /\ dpc[p] = "newline"
  /\ \/ /\ temp' = [temp EXCEPT ![p].data = @ \o Newline]
        /\ DhGoto(p, "close")
     \/ /\ DhFail(p, "TLS cache write D-H params final newline failed")
        /\ UNCHANGED temp
  /\ UNCHANGED <<cache, cacheInit, dh_server_params, mbuf, opened, generated, x509_dh>>

\* close(fd).
DhClose(p) ==
  /\ dpc[p] = "close"
  /\ \/ DhGoto(p, "rename")
     \/ DhFail(p, "TLS cache write close() failed")
  /\ UNCHANGED <<cache, cacheInit, dh_server_params, temp, mbuf, opened, generated,
                 x509_dh>>

\* Urename(temp_fn, filename), then "return OK".
DhRename(p) ==
  /\ dpc[p] = "rename"
  /\ \/ /\ cache' = RegFile(temp[p].data)
        /\ temp' = [temp EXCEPT ![p] = NoTemp]
        /\ dh_rc' = [dh_rc EXCEPT ![p] = OK]
        /\ dh_err' = [dh_err EXCEPT ![p] = ""]
        /\ dpc' = [dpc EXCEPT ![p] = "ret"]
     \/ /\ DhFail(p, "failed to rename")
        /\ UNCHANGED <<cache, temp>>
  /\ UNCHANGED <<cacheInit, dh_server_params, mbuf, opened, generated, x509_dh>>

\* Back in tls_set_remaining_x509: "if (rc != OK) return rc;".  The locals of
\* init_server_dh are gone; a temp file a failed run left behind is never
\* opened again (mkstemp names are unique) and is dropped from the model.
DhReturn(p) ==
  /\ dpc[p] = "ret"
  /\ dpc' = [dpc EXCEPT ![p] = IF dh_rc[p] = OK THEN "attach" ELSE "idle"]
  /\ dh_err' = [dh_err EXCEPT ![p] = ""]
  /\ opened' = [opened EXCEPT ![p] = NotOpened]
  /\ generated' = [generated EXCEPT ![p] = FALSE]
  /\ temp' = [temp EXCEPT ![p] = NoTemp]
  /\ mbuf' = [mbuf EXCEPT ![p] = <<>>]
  /\ UNCHANGED <<cache, cacheInit, dh_server_params, dh_rc, x509_dh>>

\* gnutls_certificate_set_dh_params(state->x509_cred, dh_server_params).
DhAttach(p) ==
  /\ dpc[p] = "attach"
  /\ x509_dh' = [x509_dh EXCEPT ![p] = [set |-> TRUE, val |-> dh_server_params[p].val]]
  /\ dpc' = [dpc EXCEPT ![p] = "idle"]
  /\ UNCHANGED <<cache, cacheInit, dh_server_params, temp, mbuf, dh_rc, dh_err, opened,
                 generated>>

\* The steps of init_server_dh and of the D-H part of tls_set_remaining_x509.
DhStep(p) ==
  \/ DhInit(p)
  \/ DhOpenAbsent(p)
  \/ DhOpenRead(p)
  \/ DhMkstemp(p)
  \/ DhGenerate(p)
  \/ DhExport(p)
  \/ DhWrite(p)
  \/ DhNewline(p)
  \/ DhClose(p)
  \/ DhRename(p)
  \/ DhReturn(p)
  \/ DhAttach(p)

\* A server session start in process p, as far as the D-H parameters go: a new
\* credential set (gnutls_certificate_allocate_credentials) has no parameters.
DhServerStart(p) ==
  /\ DhEnter(p)
  /\ x509_dh' = [x509_dh EXCEPT ![p] = NoDh]

\* The process ends and another starts: the static handle is NULL again.
DhNewProcess(p) ==
  /\ dpc[p] = "idle"
  /\ dh_server_params[p] # NullParams
  /\ dh_server_params' = [dh_server_params EXCEPT ![p] = NullParams]
  /\ x509_dh' = [x509_dh EXCEPT ![p] = NoDh]
  /\ dh_rc' = [dh_rc EXCEPT ![p] = "none"]
  /\ UNCHANGED <<cache, cacheInit, dpc, temp, mbuf, dh_err, opened, generated>>

NextDH ==
  \/ \E p \in Procs : DhServerStart(p) /\ UNCHANGED <<sessVars, auxVars>>
  \/ \E p \in Procs : DhStep(p) /\ UNCHANGED <<sessVars, auxVars>>
  \/ \E p \in Procs : DhNewProcess(p) /\ UNCHANGED <<sessVars, auxVars>>

\* =================================================== the serving process
\* The process whose sessions Spec follows.
Self == CHOOSE p \in Procs : \A q \in Procs : p <= q

Roles == {"server", "client"}

VERIFY_NONE == "VERIFY_NONE"
VERIFY_OPTIONAL == "VERIFY_OPTIONAL"
VERIFY_REQUIRED == "VERIFY_REQUIRED"

\* ------------------------------------------------ configuration, expansion
\* The settings of a process: tls_certificate, tls_privatekey,
\* tls_verify_certificates, tls_crl and tls_require_ciphers (the globals a
\* server start reads, the transport options a client start is passed) and
\* the SNI a client sends.
Setting(c, k, v, l, q, s) ==
  [certificate |-> c, privatekey |-> k, verify_certificates |-> v, crl |-> l,
   require_ciphers |-> q, sni |-> s]

BaseSetting == Setting("/cert", NULL, NULL, NULL, NULL, NULL)

Settings ==
  { BaseSetting,
    Setting("/cert", "/key", "", NULL, "SECURE256", "mx.example"),
    Setting("/cert", "", "/ca/file", "", NULL, NULL),
    Setting("/cert", NULL, "/ca/empty", "/crl", NULL, NULL),
    Setting("/cert/${tls_sni}", NULL, "/ca/file", "/crl", NULL, NULL),
    Setting("/nocert", "/key/${tls_sni}", NULL, NULL, NULL, NULL),
    [BaseSetting EXCEPT !.certificate = NULL],
    [BaseSetting EXCEPT !.certificate = NULL, !.sni = "${bad}"],
    [BaseSetting EXCEPT !.certificate = "${bad}"],
    [BaseSetting EXCEPT !.certificate = "/nocert"],
    [BaseSetting EXCEPT !.privatekey = "${bad}"],
    [BaseSetting EXCEPT !.verify_certificates = "/ca/dir"],
    [BaseSetting EXCEPT !.verify_certificates = "/ca/missing"],
    [BaseSetting EXCEPT !.verify_certificates = "/ca/garbage"],
    [BaseSetting EXCEPT !.verify_certificates = "${bad}"],
    [BaseSetting EXCEPT !.verify_certificates = "/ca/file", !.crl = "/crl/garbage"],
    [BaseSetting EXCEPT !.verify_certificates = "/ca/file", !.crl = "${bad}"],
    [BaseSetting EXCEPT !.require_ciphers = "garbage"],
    [BaseSetting EXCEPT !.require_ciphers = "${bad}"] }

\* Server names a client may send.
SniNames == {"a.example", "b.example"}

\* Ustrstr(state->tls_certificate, "tls_sni")
UsesSni(t) == t \in {"/cert/${tls_sni}", "/key/${tls_sni}"}

\* expand_string(): a template that names $tls_sni gives a path per server
\* name; "${bad}" does not expand; any other string is itself.
expand_string(t, sni) ==
  IF t = "/cert/${tls_sni}"
    THEN (IF sni = NULL THEN "/cert/default"
          ELSE IF sni = "a.example" THEN "/cert/a.example"
          ELSE "/cert/b.example")
  ELSE IF t = "/key/${tls_sni}"
    THEN (IF sni = NULL THEN "/key/default"
          ELSE IF sni = "a.example" THEN "/key/a.example"
          ELSE "/key/b.example")
  ELSE t

\* expand_check(): TRUE with NULL for an unset setting, FALSE when the
\* expansion fails, else TRUE with the expanded string.
expand_check(t, sni) ==
  IF t = NULL THEN [ok |-> TRUE, val |-> NULL]
  ELSE IF t = "${bad}" THEN [ok |-> FALSE, val |-> NULL]
  ELSE [ok |-> TRUE, val |-> expand_string(t, sni)]

\* gnutls_certificate_set_x509_key_file: these files hold no usable pair.
KeyFileLoads(cert, key) == cert \notin {"/nocert", "/cert/b.example"}

\* A wrong test: S_ISDIR is not looked at, a directory goes on as a file would.
StatNoDirTest(path) ==
  IF path = "/ca/missing" THEN "fail"
  ELSE IF path = "/ca/empty" THEN "empty"
  ELSE "file"

\* A wrong test: st_size is not looked at, an empty file goes on to be loaded.
StatNoSizeTest(path) ==
  IF path = "/ca/missing" THEN "fail"
  ELSE IF path = "/ca/dir" THEN "dir"
  ELSE "file"

\* Ustat(state->exp_tls_verify_certificates, &statbuf)
Stat(path) ==
  IF path = "/ca/missing" THEN "fail"
  ELSE IF path = "/ca/dir" THEN "dir"
  ELSE IF path = "/ca/empty" THEN "empty"
  ELSE "file"

\* gnutls_certificate_set_x509_trust_file / _crl_file: cert_count >= 0.
TrustFileLoads(path) == path # "/ca/garbage"

CrlFileLoads(path) == path # "/crl/garbage"

\* gnutls_priority_init(&state->priority_cache, string, &errpos)
PriorityInitOk(s) == s # "garbage"

\* ------------------------------------------------------ the state block
NullCred == [alloc |-> FALSE, certs |-> <<>>, cas |-> <<>>, crls |-> <<>>]

\* gnutls_certificate_allocate_credentials: an empty set.
FreshCred == [alloc |-> TRUE, certs |-> <<>>, cas |-> <<>>, crls |-> <<>>]

NoBinding == [cred |-> NullCred, dh |-> NoDh]

\* A wrong initial state block: the peer certificate counts as verified.
exim_gnutls_state_init_verified ==
  [ session |-> NULL, x509_cred |-> NullCred, priority_cache |-> NULL,
    verify_requirement |-> VERIFY_NONE, fd_in |-> -1, fd_out |-> -1,
    peer_cert_verified |-> TRUE, trigger_sni_changes |-> FALSE,
    have_set_peerdn |-> FALSE,
    host |-> NULL, peerdn |-> NULL, ciphersuite |-> NULL, received_sni |-> NULL,
    tls_certificate |-> NULL, tls_privatekey |-> NULL, tls_sni |-> NULL,
    tls_verify_certificates |-> NULL, tls_crl |-> NULL, tls_require_ciphers |-> NULL,
    exp_tls_certificate |-> NULL, exp_tls_privatekey |-> NULL, exp_tls_sni |-> NULL,
    exp_tls_verify_certificates |-> NULL, exp_tls_crl |-> NULL,
    exp_tls_require_ciphers |-> NULL,
    xfer_buffer |-> NULL, xfer_buffer_lwm |-> 0, xfer_buffer_hwm |-> 0,
    xfer_eof |-> 0, xfer_error |-> 0 ]

exim_gnutls_state_init ==
  [ session |-> NULL, x509_cred |-> NullCred, priority_cache |-> NULL,
    verify_requirement |-> VERIFY_NONE, fd_in |-> -1, fd_out |-> -1,
    peer_cert_verified |-> FALSE, trigger_sni_changes |-> FALSE,
    have_set_peerdn |-> FALSE,
    host |-> NULL, peerdn |-> NULL, ciphersuite |-> NULL, received_sni |-> NULL,
    tls_certificate |-> NULL, tls_privatekey |-> NULL, tls_sni |-> NULL,
    tls_verify_certificates |-> NULL, tls_crl |-> NULL, tls_require_ciphers |-> NULL,
    exp_tls_certificate |-> NULL, exp_tls_privatekey |-> NULL, exp_tls_sni |-> NULL,
    exp_tls_verify_certificates |-> NULL, exp_tls_crl |-> NULL,
    exp_tls_require_ciphers |-> NULL,
    xfer_buffer |-> NULL, xfer_buffer_lwm |-> 0, xfer_buffer_hwm |-> 0,
    xfer_eof |-> 0, xfer_error |-> 0 ]

State(r) == IF r = "server" THEN state_server ELSE state_client

SetState(r, st) ==
  IF r = "server"
    THEN state_server' = st /\ UNCHANGED state_client
    ELSE state_client' = st /\ UNCHANGED state_server

\* The five receive_* function pointers.
SmtpReceive ==
  [getc |-> "smtp_getc", ungetc |-> "smtp_ungetc", feof |-> "smtp_feof",
   ferror |-> "smtp_ferror", smtp_buffered |-> "smtp_buffered"]

TlsReceive ==
  [getc |-> "tls_getc", ungetc |-> "tls_ungetc", feof |-> "tls_feof",
   ferror |-> "tls_ferror", smtp_buffered |-> "tls_smtp_buffered"]

\* Nothing read or written through the record layer yet.
NoRead == [len |-> 0, inbytes |-> 0, io_error |-> FALSE, ret |-> 0]

NoWrite == [len |-> 0, ret |-> 0, sends |-> <<>>]

InitIo ==
  /\ net_tls = <<>>
  /\ net_smtp = <<>>
  /\ xfer_data = <<>>
  /\ got = <<>>
  /\ fed = <<>>
  /\ bulk = <<>>
  /\ rd = NoRead
  /\ wr = NoWrite

\* No call of vaguely_random_number yet.
NoRnd ==
  [pc |-> "none", max |-> 0, needed_len |-> 0, asked |-> 0, smallbuf |-> <<>>, ret |-> 0]

\* No call of tls_close since the last start operation.
NoClose ==
  [called |-> FALSE, shutdown |-> FALSE, entry_active |-> -1, state |-> NULL,
   steps |-> <<>>]

NoCall ==
  [fd |-> -1, on_connect |-> FALSE, hs_steps |-> 0, sni_fired |-> FALSE,
   cb_failed |-> FALSE, entry_active |-> -1]

PeerKinds == {"none", "nonx509", "unparsable", "emptydn", "x509"}

InitSession ==
  /\ state_server = exim_gnutls_state_init
  /\ state_client = exim_gnutls_state_init
  /\ current_global_tls_state = NULL
  /\ exim_gnutls_base_init_done = FALSE
  /\ tls_active = -1
  /\ tls_bits = 0
  /\ tls_cipher = NULL
  /\ tls_peerdn = NULL
  /\ tls_certificate_verified = FALSE
  /\ tls_channelbinding_b64 = NULL
  /\ tls_sni = NULL
  /\ receive = SmtpReceive
  /\ sigalrm_seen = FALSE
  /\ smtp_open = TRUE
  /\ bound = [r \in Roles |-> NoBinding]
  /\ peer = [r \in Roles |-> "none"]
  /\ pc = "idle"
  /\ role = "none"
  /\ caller = "none"
  /\ call = NoCall
  /\ op = "none"
  /\ rc = "none"
  /\ err = ""
  /\ trace = <<>>
  /\ starts = 0
  /\ parses = [r \in Roles |-> 0]
  /\ InitIo
  /\ rnd = NoRnd
  /\ closed = NoClose

\* SpecDH: the D-H cache alone, the session state at rest.
InitDHOnly ==
  /\ InitDH
  /\ InitSession
  /\ cfg = BaseSetting

SpecDH == InitDHOnly /\ [][NextDH]_vars

\* Spec: one process, its settings one of Settings, no cache file yet.
Init ==
  /\ InitDH
  /\ cache = AbsentFile
  /\ InitSession
  /\ cfg \in Settings

\* ------------------------------------------------- tls_expand_session_files
Result(st, code, label) == [st |-> st, rc |-> code, err |-> label]

\* A wrong allocation: the set the state block already holds is kept and added to.
AllocCredKeep(st, ok) ==
  IF ok THEN [st.x509_cred EXCEPT !.alloc = TRUE] ELSE NullCred

\* gnutls_certificate_allocate_credentials(&state->x509_cred)
AllocCred(st, ok) == IF ok THEN FreshCred ELSE NullCred

\* tls_expand_session_files, the CRL: gnutls_certificate_set_x509_crl_file.
ExpandLoadCrl(st) ==
  IF st.tls_crl # NULL /\ st.tls_crl # "" /\ st.exp_tls_crl # NULL /\ st.exp_tls_crl # ""
    THEN IF CrlFileLoads(st.exp_tls_crl)
           THEN Result([st EXCEPT !.x509_cred.crls = Append(@, st.exp_tls_crl)], OK, "")
           ELSE Result(st, tls_error(st.host), "gnutls_certificate_set_x509_crl_file")
    ELSE Result(st, OK, "")

\* tls_expand_session_files, the trust store once its name is known: Ustat,
\* S_ISDIR, st_size == 0, gnutls_certificate_set_x509_trust_file.
ExpandLoadTrust(st) ==
  LET path == st.exp_tls_verify_certificates IN
  IF Stat(path) = "fail" THEN Result(st, DEFER, "could not stat")
  ELSE IF Stat(path) = "dir" THEN Result(st, DEFER, "is a directory")
  ELSE IF Stat(path) = "empty" THEN Result(st, OK, "")
  ELSE IF ~TrustFileLoads(path)
    THEN Result(st, tls_error(st.host), "gnutls_certificate_set_x509_trust_file")
  ELSE ExpandLoadCrl([st EXCEPT !.x509_cred.cas = Append(@, path)])

\* tls_expand_session_files, the expansion of tls_crl.
ExpandCrl(st, sni) ==
  LET l == expand_check(st.tls_crl, sni) IN
  IF st.tls_crl # NULL /\ st.tls_crl # ""
    THEN IF l.ok THEN [ok |-> TRUE, st |-> [st EXCEPT !.exp_tls_crl = l.val]]
         ELSE [ok |-> FALSE, st |-> [st EXCEPT !.exp_tls_crl = l.val]]
    ELSE [ok |-> TRUE, st |-> st]

\* tls_expand_session_files, tls_verify_certificates and tls_crl.
ExpandTrust(st, sni) ==
  LET v == expand_check(st.tls_verify_certificates, sni)
      stv == [st EXCEPT !.exp_tls_verify_certificates = v.val]
      c == ExpandCrl(stv, sni)
  IN
  IF st.tls_verify_certificates = NULL \/ st.tls_verify_certificates = ""
    THEN Result(st, OK, "")
  ELSE IF ~v.ok THEN Result(stv, DEFER, "expand tls_verify_certificates")
  ELSE IF ~c.ok THEN Result(c.st, DEFER, "expand tls_crl")
  ELSE IF v.val = NULL \/ v.val = "" THEN Result(c.st, OK, "")
  ELSE ExpandLoadTrust(c.st)

\* tls_expand_session_files, the key pair: gnutls_certificate_set_x509_key_file.
ExpandLoadKey(st, sni) ==
  IF st.exp_tls_certificate # NULL /\ st.exp_tls_certificate # ""
    THEN IF KeyFileLoads(st.exp_tls_certificate, st.exp_tls_privatekey)
           THEN ExpandTrust(
                  [st EXCEPT !.x509_cred.certs =
                     Append(@, <<st.exp_tls_certificate, st.exp_tls_privatekey>>)], sni)
           ELSE Result(st, tls_error(st.host), "cert/key setup")
    ELSE ExpandTrust(st, sni)

\* tls_expand_session_files, tls_privatekey and its default.
ExpandKey(st, sni) ==
  LET k == expand_check(st.tls_privatekey, sni)
      stk == [st EXCEPT !.exp_tls_privatekey = k.val]
  IN
  IF st.tls_privatekey # NULL /\ ~k.ok THEN Result(stk, DEFER, "expand tls_privatekey")
  ELSE IF st.tls_privatekey = NULL \/ st.tls_privatekey = ""
    THEN ExpandLoadKey([st EXCEPT !.tls_privatekey = st.tls_certificate,
                                  !.exp_tls_privatekey = st.exp_tls_certificate], sni)
  ELSE ExpandLoadKey(stk, sni)

\* tls_expand_session_files, tls_certificate.
ExpandCert(st, sni) ==
  LET c == expand_check(st.tls_certificate, sni)
      stc == [st EXCEPT !.exp_tls_certificate = c.val]
  IN
  IF ~c.ok THEN Result(stc, DEFER, "expand tls_certificate")
  ELSE IF (c.val = NULL \/ c.val = "") /\ st.host = NULL
    THEN Result(stc, tls_error(NULL), "no TLS server certificate is specified")
  ELSE ExpandKey(stc, sni)

\* A wrong test: the role of the block is not looked at.
ExpandTriggerAnyRole(st) ==
  IF st.received_sni = NULL /\ st.tls_certificate # NULL /\ UsesSni(st.tls_certificate)
    THEN [st EXCEPT !.trigger_sni_changes = TRUE]
    ELSE st

\* tls_expand_session_files, "We check for tls_sni *before* expansion".
ExpandTrigger(st) ==
  IF st.host = NULL /\ st.received_sni = NULL
     /\ st.tls_certificate # NULL /\ UsesSni(st.tls_certificate)
    THEN [st EXCEPT !.trigger_sni_changes = TRUE]
    ELSE st

\* The whole of tls_expand_session_files on state block st, with $tls_sni = sni;
\* alloc_ok is whether the credential allocation works.
tls_expand_session_files(st, sni, alloc_ok) ==
  LET sta == [ExpandTrigger(st) EXCEPT !.x509_cred = AllocCred(st, alloc_ok)] IN
  IF ~alloc_ok
    THEN Result(sta, tls_error(st.host), "gnutls_certificate_allocate_credentials")
    ELSE ExpandCert(sta, sni)

\* --------------------------------------------------------- operations
\* "return rc" from the operation in progress.
Return(code, label) ==
  /\ rc' = code
  /\ err' = label
  /\ pc' = "returned"

Log(event) == trace' = Append(trace, event)

\* A wrong callback: it returns 0 to the engine after a failed re-resolution.
ResolverFailedIgnored(code, label) ==
  IF caller = "sni_cb"
    THEN /\ pc' = "in_handshake"
         /\ UNCHANGED <<rc, err, call>>
    ELSE /\ Return(code, label)
         /\ UNCHANGED call

\* A wrong callback: the resolver's code goes straight out of the start operation.
ResolverFailedDirect(code, label) ==
  /\ Return(code, label)
  /\ UNCHANGED call

\* The resolver failed: tls_init returns the code to the start operation, which
\* returns it; the SNI callback returns GNUTLS_E_APPLICATION_ERROR_MIN to the
\* engine, inside gnutls_handshake.
ResolverFailed(code, label) ==
  IF caller = "sni_cb"
    THEN /\ call' = [call EXCEPT !.cb_failed = TRUE]
         /\ pc' = "in_handshake"
         /\ UNCHANGED <<rc, err>>
    ELSE /\ Return(code, label)
         /\ UNCHANGED call

\* A wrong guard: a start is never refused.
AlreadyActiveIgnored == FALSE

\* A wrong guard: only a live server session counts.
AlreadyActiveServerOnly == state_server.session # NULL /\ tls_active >= 0

\* tls_server_start: "if (tls_active >= 0)".
AlreadyActive == tls_active >= 0

\* tls_server_start, up to the call of tls_init.
ServerStartCall ==
  /\ pc = "idle"
  /\ smtp_open
  /\ starts < MaxStarts
  /\ starts' = starts + 1
  /\ op' = "tls_server_start"
  /\ closed' = NoClose
  /\ call' = [NoCall EXCEPT !.entry_active = tls_active]
  /\ IF AlreadyActive
       THEN /\ trace' = <<"554 Already in TLS">>
            /\ Return(FAIL, "STARTTLS received after TLS started")
            /\ UNCHANGED <<role, caller>>
       ELSE /\ trace' = <<>>
            /\ role' = "server"
            /\ caller' = "tls_init"
            /\ pc' = "tls_init"
            /\ UNCHANGED <<rc, err>>
  /\ UNCHANGED <<dhVars, factVars, stateVars, cfg, parses>>

\* tls_client_start, up to the call of tls_init.
ClientStartCall ==
  /\ pc = "idle"
  /\ starts < MaxStarts
  /\ starts' = starts + 1
  /\ op' = "tls_client_start"
  /\ closed' = NoClose
  /\ \E fd \in 2..MaxFd :
       call' = [NoCall EXCEPT !.fd = fd, !.entry_active = tls_active]
  /\ trace' = <<>>
  /\ role' = "client"
  /\ caller' = "tls_init"
  /\ pc' = "tls_init"
  /\ UNCHANGED <<rc, err>>
  /\ UNCHANGED <<dhVars, factVars, stateVars, cfg, parses>>

\* tls_init: library initialisation, reset of the state block, gnutls_init and
\* the copy of the settings into the block.
TlsInitBase ==
  /\ pc = "tls_init"
  /\ LET host == IF role = "client" THEN "host" ELSE NULL
         st == [exim_gnutls_state_init EXCEPT
                  !.session = "live",
                  !.host = host,
                  !.tls_certificate = cfg.certificate,
                  !.tls_privatekey = cfg.privatekey,
                  !.tls_require_ciphers = cfg.require_ciphers,
                  !.tls_sni = IF role = "client" THEN cfg.sni ELSE NULL,
                  !.tls_verify_certificates = cfg.verify_certificates,
                  !.tls_crl = cfg.crl]
     IN
     \/ /\ ~exim_gnutls_base_init_done
        /\ Return(tls_error(host), "gnutls_global_init")
        /\ UNCHANGED <<exim_gnutls_base_init_done, state_server, state_client, parses,
                       bound>>
     \/ /\ exim_gnutls_base_init_done' = TRUE
        /\ parses' = [parses EXCEPT ![role] = 0]
        /\ \/ /\ SetState(role, exim_gnutls_state_init)
              /\ bound' = [bound EXCEPT ![role] = NoBinding]
              /\ Return(tls_error(host), "gnutls_init")
           \/ /\ SetState(role, st)
              /\ bound' = [bound EXCEPT ![role] = NoBinding]
              /\ pc' = "expand"
              /\ UNCHANGED <<rc, err>>
  /\ UNCHANGED <<dhVars, factVars, current_global_tls_state, receive, sigalrm_seen,
                 smtp_open, peer, cfg, role, caller, call, op, trace, starts>>

\* tls_expand_session_files, called from tls_init or from the SNI callback.
ExpandSessionFiles ==
  /\ pc = "expand"
  /\ \E alloc_ok \in BOOLEAN :
       LET r == tls_expand_session_files(State(role), tls_sni, alloc_ok) IN
       /\ SetState(role, r.st)
       /\ IF r.rc = OK
            THEN /\ pc' = "set_x509"
                 /\ UNCHANGED <<rc, err, call>>
            ELSE ResolverFailed(r.rc, r.err)
  /\ x509_dh' = IF role = "server" THEN [x509_dh EXCEPT ![Self] = NoDh] ELSE x509_dh
  /\ UNCHANGED <<cache, cacheInit, dh_server_params, dpc, temp, mbuf, dh_rc, dh_err,
                 opened, generated>>
  /\ UNCHANGED <<factVars, current_global_tls_state, exim_gnutls_base_init_done, receive,
                 sigalrm_seen, smtp_open, bound, peer, cfg, role, caller, op, trace,
                 starts, parses>>

\* tls_set_remaining_x509, server: the D-H parameters first.
SetRemainingX509Server ==
  /\ pc = "set_x509"
  /\ role = "server"
  /\ DhEnter(Self)
  /\ pc' = "dh"
  /\ UNCHANGED x509_dh
  /\ UNCHANGED <<factVars, stateVars, cfg, role, caller, call, op, rc, err, trace,
                 starts, parses>>

\* init_server_dh and gnutls_certificate_set_dh_params in the serving process.
ServerDhStep ==
  /\ pc = "dh"
  /\ DhStep(Self)
  /\ UNCHANGED sessVars

\* gnutls_credentials_set(state->session, GNUTLS_CRD_CERTIFICATE, x509_cred)
CredentialsSet ==
  \/ /\ bound' = [bound EXCEPT ![role] =
                    [cred |-> State(role).x509_cred,
                     dh |-> IF role = "server" THEN x509_dh[Self] ELSE NoDh]]
     /\ IF caller = "sni_cb"
          THEN pc' = "in_handshake"
          ELSE pc' = "init_rest"
     /\ UNCHANGED <<rc, err, call>>
  \/ /\ ResolverFailed(tls_error(State(role).host), "gnutls_credentials_set")
     /\ UNCHANGED bound

\* tls_set_remaining_x509, server, after the D-H part.
SetRemainingX509ServerRest ==
  /\ pc = "dh"
  /\ dpc[Self] = "idle"
  /\ IF dh_rc[Self] # OK
       THEN /\ ResolverFailed(dh_rc[Self], "init_server_dh")
            /\ UNCHANGED bound
       ELSE CredentialsSet
  /\ UNCHANGED <<dhVars, factVars, state_server, state_client, current_global_tls_state,
                 exim_gnutls_base_init_done, receive, sigalrm_seen, smtp_open, peer, cfg,
                 role, caller, op, trace, starts, parses>>

\* tls_set_remaining_x509, client: no D-H parameters.
SetRemainingX509Client ==
  /\ pc = "set_x509"
  /\ role = "client"
  /\ CredentialsSet
  /\ UNCHANGED <<dhVars, factVars, state_server, state_client, current_global_tls_state,
                 exim_gnutls_base_init_done, receive, sigalrm_seen, smtp_open, peer, cfg,
                 role, caller, op, trace, starts, parses>>

\* tls_init after the credentials: the client's SNI, the priority string,
\* "current_global_tls_state = state".
TlsInitRest ==
  /\ pc = "init_rest"
  /\ LET st0 == State(role)
         host == st0.host
         s == expand_check(st0.tls_sni, tls_sni)
         st1 == IF host # NULL THEN [st0 EXCEPT !.exp_tls_sni = s.val] ELSE st0
         sends == host # NULL /\ st1.exp_tls_sni # NULL /\ st1.exp_tls_sni # ""
         wants == st1.tls_require_ciphers # NULL /\ st1.tls_require_ciphers # ""
         q == expand_check(st1.tls_require_ciphers, tls_sni)
         st2 == IF wants THEN [st1 EXCEPT !.exp_tls_require_ciphers = q.val] ELSE st1
         own == wants /\ st2.exp_tls_require_ciphers # NULL
                  /\ st2.exp_tls_require_ciphers # ""
         p == IF own THEN st2.exp_tls_require_ciphers ELSE "NORMAL"
         st3 == [st2 EXCEPT !.priority_cache = p]
     IN
     \/ /\ host # NULL /\ ~s.ok
        /\ SetState(role, st1)
        /\ Return(DEFER, "expand tls_sni")
        /\ UNCHANGED current_global_tls_state
     \/ /\ sends
        /\ SetState(role, st1)
        /\ Return(tls_error(host), "gnutls_server_name_set")
        /\ UNCHANGED current_global_tls_state
     \/ /\ host = NULL \/ s.ok
        /\ wants /\ ~q.ok
        /\ SetState(role, st2)
        /\ Return(DEFER, "expand tls_require_ciphers")
        /\ UNCHANGED current_global_tls_state
     \/ /\ host = NULL \/ s.ok
        /\ ~wants \/ q.ok
        /\ ~PriorityInitOk(p)
        /\ SetState(role, st2)
        /\ Return(tls_error(host), "gnutls_priority_init")
        /\ UNCHANGED current_global_tls_state
     \/ /\ host = NULL \/ s.ok
        /\ ~wants \/ q.ok
        /\ PriorityInitOk(p)
        /\ SetState(role, st3)
        /\ \/ /\ Return(tls_error(host), "gnutls_priority_set")
              /\ UNCHANGED current_global_tls_state
           \/ /\ current_global_tls_state' = role
              /\ pc' = "post_init"
              /\ UNCHANGED <<rc, err>>
  /\ UNCHANGED <<dhVars, factVars, exim_gnutls_base_init_done, receive, sigalrm_seen,
                 smtp_open, bound, peer, cfg, role, caller, call, op, trace, starts,
                 parses>>

\* A wrong test: the response is sent when TLS starts on connection as well.
GoAheadAlways(tls_on_connect) == <<"220 TLS go ahead">>

\* "if (!tls_on_connect) { smtp_printf("220 TLS go ahead\r\n"); ... }"
GoAhead(tls_on_connect) == IF tls_on_connect THEN <<>> ELSE <<"220 TLS go ahead">>

\* tls_server_start between tls_init and the handshake loop: the policy from
\* tls_verify_hosts and tls_try_verify_hosts, the callback, the go-ahead
\* response, the descriptors, "sigalrm_seen = FALSE".
ServerPostInit ==
  /\ pc = "post_init"
  /\ role = "server"
  /\ \E policy \in {VERIFY_NONE, VERIFY_OPTIONAL, VERIFY_REQUIRED} :
       state_server' = [state_server EXCEPT !.verify_requirement = policy,
                                            !.fd_in = 0, !.fd_out = 1]
  /\ \E tls_on_connect \in BOOLEAN :
       /\ call' = [call EXCEPT !.on_connect = tls_on_connect]
       /\ trace' = trace \o GoAhead(tls_on_connect)
  /\ sigalrm_seen' = FALSE
  /\ pc' = "handshake"
  /\ UNCHANGED <<dhVars, factVars, state_client, current_global_tls_state,
                 exim_gnutls_base_init_done, receive, smtp_open, bound, peer, cfg, role,
                 caller, op, rc, err, starts, parses>>

\* tls_client_start between tls_init and the handshake loop.
ClientPostInit ==
  /\ pc = "post_init"
  /\ role = "client"
  /\ state_client' =
       [state_client EXCEPT
          !.verify_requirement =
             IF cfg.verify_certificates = NULL THEN VERIFY_NONE ELSE VERIFY_REQUIRED,
          !.fd_in = call.fd, !.fd_out = call.fd]
  /\ sigalrm_seen' = FALSE
  /\ pc' = "handshake"
  /\ UNCHANGED <<dhVars, factVars, state_server, current_global_tls_state,
                 exim_gnutls_base_init_done, receive, smtp_open, bound, peer, cfg, role,
                 caller, call, op, rc, err, trace, starts, parses>>

\* "rc = gnutls_handshake(state->session)": the call.
HandshakeCall ==
  /\ pc = "handshake"
  /\ call.hs_steps < MaxHandshakeSteps
  /\ call' = [call EXCEPT !.hs_steps = @ + 1]
  /\ trace' = IF call.hs_steps = 0 THEN Append(trace, "gnutls_handshake") ELSE trace
  /\ pc' = "in_handshake"
  /\ UNCHANGED <<dhVars, factVars, stateVars, cfg, role, caller, op, rc, err, starts,
                 parses>>

\* The alarm goes off while the engine is in gnutls_handshake.
SigAlrm ==
  /\ pc = "in_handshake"
  /\ ~sigalrm_seen
  /\ sigalrm_seen' = TRUE
  /\ UNCHANGED <<dhVars, factVars, state_server, state_client, current_global_tls_state,
                 exim_gnutls_base_init_done, receive, smtp_open, bound, peer, cfg,
                 opVars>>

\* What gnutls_server_name_get can give the callback: a name of type
\* GNUTLS_NAME_DNS, GNUTLS_E_REQUESTED_DATA_NOT_AVAILABLE when the client sent
\* none, another error, or a name of another type.
ServerNameGets ==
  {[kind |-> "dns", name |-> n] : n \in SniNames}
    \cup {[kind |-> k, name |-> NULL] : k \in {"absent", "error", "other"}}

\* A wrong callback: every received name starts the re-resolution.
SniRetriggersAlways(st) == TRUE

\* exim_sni_handling_cb: "if (!state->trigger_sni_changes) return 0;"
SniRetriggers(st) == st.trigger_sni_changes

\* exim_sni_handling_cb, called by the engine after the client hello.
SniCallback ==
  /\ pc = "in_handshake"
  /\ role = "server"
  /\ ~call.sni_fired
  /\ ~call.cb_failed
  /\ \E g \in ServerNameGets :
       /\ call' = [call EXCEPT !.sni_fired = TRUE]
       /\ IF g.kind = "dns"
            THEN /\ state_server' = [state_server EXCEPT !.received_sni = g.name]
                 /\ tls_sni' = g.name
                 /\ IF SniRetriggers(state_server)
                      THEN /\ caller' = "sni_cb"
                           /\ pc' = "expand"
                      ELSE UNCHANGED <<caller, pc>>
            ELSE UNCHANGED <<state_server, tls_sni, caller, pc>>
  /\ UNCHANGED <<dhVars, tls_active, tls_bits, tls_cipher, tls_peerdn,
                 tls_certificate_verified, tls_channelbinding_b64, state_client,
                 current_global_tls_state, exim_gnutls_base_init_done, receive,
                 sigalrm_seen, smtp_open, bound, peer, cfg, role, op, rc, err, trace,
                 starts, parses>>

HandshakeResults == {"GNUTLS_E_AGAIN", "GNUTLS_E_INTERRUPTED", "GNUTLS_E_SUCCESS", "error"}

\* What the peer presented.  A server that asked with GNUTLS_CERT_REQUIRE gets
\* no successful handshake from a client without a certificate.
PeerKindsFor(r, policy) ==
  IF r = "server" /\ policy = VERIFY_REQUIRED THEN PeerKinds \ {"none"} ELSE PeerKinds

\* The loop test, written as the code has it.
HandshakeLoops(result, alarmed) ==
  result = "GNUTLS_E_AGAIN" \/ (result = "GNUTLS_E_INTERRUPTED" /\ ~alarmed)

\* A wrong test: the endpoints are closed after a timeout as well.
ClosesEndpointsAlways(alarmed) == TRUE

\* tls_server_start after a failed handshake: "if (!sigalrm_seen)".
ClosesEndpoints(alarmed) == ~alarmed

\* gnutls_handshake returns; the loop test; "if (rc != GNUTLS_E_SUCCESS)".
\* The count of calls and the mark of the callback belong to one handshake and
\* end with its loop.
HandshakeReturn ==
  /\ pc = "in_handshake"
  /\ \E result \in HandshakeResults :
       /\ call.cb_failed => result = "error"
       /\ call' = IF HandshakeLoops(result, sigalrm_seen) THEN call
                  ELSE [call EXCEPT !.hs_steps = 0, !.sni_fired = FALSE]
       /\ IF HandshakeLoops(result, sigalrm_seen)
            THEN /\ call.hs_steps < MaxHandshakeSteps
                 /\ pc' = "handshake"
                 /\ UNCHANGED <<rc, err, trace, smtp_open, peer>>
          ELSE IF result = "GNUTLS_E_SUCCESS"
            THEN /\ \E k \in PeerKindsFor(role, State(role).verify_requirement) :
                      peer' = [peer EXCEPT ![role] = k]
                 /\ pc' = "verify"
                 /\ UNCHANGED <<rc, err, trace, smtp_open>>
          ELSE IF role = "server"
            THEN /\ Return(FAIL, IF sigalrm_seen THEN "gnutls_handshake: timed out"
                                 ELSE "gnutls_handshake")
                 /\ IF ClosesEndpoints(sigalrm_seen)
                      THEN /\ trace' = trace \o <<"fclose(smtp_out)", "fclose(smtp_in)">>
                           /\ smtp_open' = FALSE
                      ELSE UNCHANGED <<trace, smtp_open>>
                 /\ UNCHANGED peer
            ELSE /\ Return(tls_error(State(role).host),
                           IF sigalrm_seen THEN "gnutls_handshake: timed out"
                           ELSE "gnutls_handshake")
                 /\ UNCHANGED <<trace, smtp_open, peer>>
  /\ UNCHANGED <<dhVars, factVars, state_server, state_client, current_global_tls_state,
                 exim_gnutls_base_init_done, receive, sigalrm_seen, bound, cfg, role,
                 caller, op, starts, parses>>

\* ------------------------------------------------------------ peer_status
CipherLabel == "TLS1.2:DHE_RSA_AES_128_CBC_SHA1:128"

PeerDn == "CN=peer.example"

PeerResult(st, code, ran, parsed) == [st |-> st, rc |-> code, ran |-> ran, parsed |-> parsed]

\* peer_status after the have_set_peerdn test: the ciphersuite label, then the
\* certificate.
peer_status_body(st0, kind) ==
  LET st1 == [st0 EXCEPT !.have_set_peerdn = TRUE, !.peerdn = NULL,
                         !.ciphersuite = CipherLabel]
      soft == IF st1.verify_requirement = VERIFY_REQUIRED
                THEN tls_error(st1.host) ELSE OK
  IN
  IF kind \in {"none", "nonx509"} THEN PeerResult(st1, soft, TRUE, FALSE)
  ELSE IF kind = "unparsable" THEN PeerResult(st1, soft, TRUE, TRUE)
  ELSE IF kind = "emptydn" THEN PeerResult(st1, FAIL, TRUE, TRUE)
  ELSE PeerResult([st1 EXCEPT !.peerdn = PeerDn], OK, TRUE, TRUE)

\* A wrong peer_status: no have_set_peerdn test.
peer_status_unguarded(st0, kind) == peer_status_body(st0, kind)

\* A wrong peer_status: a missing or unusable certificate is never an error.
peer_status_lenient(st0, kind) ==
  LET p == peer_status_body(st0, kind) IN
  IF st0.have_set_peerdn THEN PeerResult(st0, OK, FALSE, FALSE)
  ELSE PeerResult(p.st, IF kind = "emptydn" THEN FAIL ELSE OK, p.ran, p.parsed)

\* A wrong peer_status: "state->peerdn = NULL" moved above the have_set_peerdn test.
peer_status_forgetful(st0, kind) ==
  IF st0.have_set_peerdn
    THEN PeerResult([st0 EXCEPT !.peerdn = NULL], OK, FALSE, FALSE)
    ELSE peer_status_body(st0, kind)

\* peer_status(state) on a session whose peer presented kind: the new state
\* block, the return code, whether the body ran (and so assigned tls_cipher)
\* and whether it got to parsing the certificate.
peer_status(st0, kind) ==
  IF st0.have_set_peerdn
    THEN PeerResult(st0, OK, FALSE, FALSE)
    ELSE peer_status_body(st0, kind)

\* ------------------------------------------------------ verify_certificate
\* gnutls_certificate_verify_peers2: neg is "rc < 0"; after rc < 0 the status
\* word was never written and its two bits are whatever the stack held.
VerifyOutcomes == [neg : BOOLEAN, invalid : BOOLEAN, revoked : BOOLEAN]

\* What the engine can answer for this peer and these credentials.
EngineAnswers(kind, cred) ==
  { o \in VerifyOutcomes :
      /\ kind = "none" => o.neg
      /\ (kind # "x509" /\ ~o.neg) => o.invalid
      /\ (cred.cas = <<>> /\ ~o.neg) => o.invalid
      /\ (cred.crls = <<>> /\ ~o.neg) => ~o.revoked
      /\ (o.revoked /\ ~o.neg) => o.invalid }

\* A wrong verify_certificate: failure rejects under every policy.
verify_certificate_strict(st0, kind, o) ==
  LET p == peer_status(st0, kind)
      failed == p.rc # OK \/ o.neg \/ o.invalid \/ o.revoked
  IN [st |-> [p.st EXCEPT !.peer_cert_verified = ~failed], accept |-> ~failed,
      error |-> IF p.rc # OK THEN "not supplied"
                ELSE IF ~failed THEN NULL
                ELSE IF o.revoked THEN "revoked" ELSE "invalid",
      alert |-> failed, ran |-> p.ran, parsed |-> p.parsed, publish |-> ~failed]

\* A wrong verify_certificate: failure is tolerated under every policy.
verify_certificate_lenient(st0, kind, o) ==
  LET p == peer_status(st0, kind)
      failed == p.rc # OK \/ o.neg \/ o.invalid \/ o.revoked
  IN [st |-> [p.st EXCEPT !.peer_cert_verified = ~failed], accept |-> TRUE,
      error |-> IF p.rc # OK THEN "not supplied"
                ELSE IF ~failed THEN NULL
                ELSE IF o.revoked THEN "revoked" ELSE "invalid",
      alert |-> FALSE, ran |-> p.ran, parsed |-> p.parsed, publish |-> TRUE]

\* A wrong verify_certificate: a successful verification is not recorded in
\* the state block.
verify_certificate_unrecorded(st0, kind, o) ==
  LET p == peer_status(st0, kind)
      failed == p.rc # OK \/ o.neg \/ o.invalid \/ o.revoked
      reject == failed /\ p.st.verify_requirement = VERIFY_REQUIRED
  IN [st |-> [p.st EXCEPT !.peer_cert_verified = FALSE], accept |-> ~reject,
      error |-> IF p.rc # OK THEN "not supplied"
                ELSE IF ~failed THEN NULL
                ELSE IF o.revoked THEN "revoked" ELSE "invalid",
      alert |-> reject, ran |-> p.ran, parsed |-> p.parsed, publish |-> ~reject]

\* verify_certificate(state, &error): the new state block, accept or reject,
\* the reason, whether the fatal alert went out, and whether tls_peerdn was
\* assigned.
verify_certificate(st0, kind, o) ==
  LET p == peer_status(st0, kind)
      failed == p.rc # OK \/ o.neg \/ o.invalid \/ o.revoked
      revoked == IF p.rc # OK THEN FALSE ELSE o.revoked
      reason == IF p.rc # OK THEN "not supplied"
                ELSE IF ~failed THEN NULL
                ELSE IF revoked THEN "revoked" ELSE "invalid"
      reject == failed /\ p.st.verify_requirement = VERIFY_REQUIRED
  IN [st |-> [p.st EXCEPT !.peer_cert_verified = ~failed], accept |-> ~reject,
      error |-> reason, alert |-> reject, ran |-> p.ran, parsed |-> p.parsed,
      publish |-> ~reject]

CountParse(parsed) ==
  parses' = [parses EXCEPT ![role] = IF parsed THEN @ + 1 ELSE @]

\* "Verify after the fact" / "Verify late" in the two start operations.
VerifyStep ==
  /\ pc = "verify"
  /\ IF State(role).verify_requirement = VERIFY_NONE
       THEN /\ pc' = "peer_status"
            /\ UNCHANGED <<state_server, state_client, tls_cipher, tls_peerdn, rc, err,
                           trace, parses>>
       ELSE \E o \in EngineAnswers(peer[role], bound[role].cred) :
              LET v == verify_certificate(State(role), peer[role], o) IN
              /\ SetState(role, v.st)
              /\ tls_cipher' = IF v.ran THEN v.st.ciphersuite ELSE tls_cipher
              /\ tls_peerdn' = IF v.publish THEN v.st.peerdn ELSE tls_peerdn
              /\ trace' = IF v.alert THEN Append(trace, "alert bad_certificate")
                          ELSE trace
              /\ CountParse(v.parsed)
              /\ IF v.accept \/ (role = "server"
                                   /\ v.st.verify_requirement = VERIFY_OPTIONAL)
                   THEN /\ pc' = "peer_status"
                        /\ UNCHANGED <<rc, err>>
                   ELSE Return(IF role = "server" THEN FAIL ELSE tls_error(v.st.host),
                               v.error)
  /\ UNCHANGED <<dhVars, tls_active, tls_bits, tls_certificate_verified,
                 tls_channelbinding_b64, tls_sni, current_global_tls_state,
                 exim_gnutls_base_init_done, receive, sigalrm_seen, smtp_open, bound,
                 peer, cfg, role, caller, call, op, starts>>

\* "rc = peer_status(state); if (rc != OK) return rc;"
PeerStatusStep ==
  /\ pc = "peer_status"
  /\ LET p == peer_status(State(role), peer[role]) IN
     /\ SetState(role, p.st)
     /\ tls_cipher' = IF p.ran THEN p.st.ciphersuite ELSE tls_cipher
     /\ CountParse(p.parsed)
     /\ IF p.rc = OK
          THEN /\ pc' = "extract"
               /\ UNCHANGED <<rc, err>>
          ELSE Return(p.rc, "peer_status")
  /\ UNCHANGED <<dhVars, tls_active, tls_bits, tls_peerdn, tls_certificate_verified,
                 tls_channelbinding_b64, tls_sni, current_global_tls_state,
                 exim_gnutls_base_init_done, receive, sigalrm_seen, smtp_open, bound,
                 peer, cfg, role, caller, call, op, trace, starts>>

\* extract_exim_vars_from_tls_state(state), then in the server the transfer
\* buffer and the receive_* functions, then "return OK".
ExtractAndInstall ==
  /\ pc = "extract"
  /\ LET st == State(role) IN
     /\ current_global_tls_state' = role
     /\ tls_active' = st.fd_out
     /\ tls_bits' = 128
     /\ tls_cipher' = st.ciphersuite
     /\ tls_certificate_verified' = st.peer_cert_verified
     /\ \E cb \in {NULL, "dGxzLXVuaXF1ZQ=="} : tls_channelbinding_b64' = cb
     /\ tls_peerdn' = st.peerdn
     /\ tls_sni' = st.received_sni
     /\ IF role = "server"
          THEN /\ state_server' = [st EXCEPT !.xfer_buffer = "xfer"]
               /\ receive' = TlsReceive
               /\ UNCHANGED state_client
          ELSE UNCHANGED <<state_server, state_client, receive>>
  /\ Return(OK, "")
  /\ UNCHANGED <<dhVars, exim_gnutls_base_init_done, sigalrm_seen, smtp_open, bound,
                 peer, cfg, role, caller, call, op, trace, starts, parses>>

\* The operation has returned; its caller goes on.  What the peer presented
\* and the count of certificate parses belong to the operation that is over.
Finish ==
  /\ pc = "returned"
  /\ pc' = "idle"
  /\ role' = "none"
  /\ caller' = "none"
  /\ call' = NoCall
  /\ op' = "none"
  /\ rc' = "none"
  /\ err' = ""
  /\ trace' = <<>>
  /\ peer' = [r \in Roles |-> "none"]
  /\ parses' = [r \in Roles |-> 0]
  /\ UNCHANGED <<dhVars, factVars, state_server, state_client, current_global_tls_state,
                 exim_gnutls_base_init_done, receive, sigalrm_seen, smtp_open, bound,
                 cfg, starts>>

\* What a call of tls_close on a live session does, in order: the calls made
\* when shutdown is set and when, after the memcpy, neither state block holds
\* a session.
tls_close_steps(shutdown, release) ==
  (IF shutdown THEN <<"gnutls_bye">> ELSE <<>>)
    \o <<"gnutls_deinit", "memcpy">>
    \o (IF release THEN <<"gnutls_global_deinit">> ELSE <<>>)

\* A wrong tls_close: the two session handles are tested before the memcpy.
tls_close_test_first ==
  /\ pc = "idle"
  /\ \E shutdown \in BOOLEAN :
       IF tls_active < 0
         THEN /\ closed' = [NoClose EXCEPT !.called = TRUE]
              /\ UNCHANGED <<state_server, state_client, exim_gnutls_base_init_done,
                             tls_active, bound>>
         ELSE LET release == state_server.session = NULL /\ state_client.session = NULL
              IN /\ SetState(current_global_tls_state, exim_gnutls_state_init)
                 /\ bound' = [bound EXCEPT ![current_global_tls_state] = NoBinding]
                 /\ exim_gnutls_base_init_done' =
                      IF release THEN FALSE ELSE exim_gnutls_base_init_done
                 /\ tls_active' = -1
                 /\ closed' = [called |-> TRUE, shutdown |-> shutdown,
                               entry_active |-> tls_active,
                               state |-> current_global_tls_state,
                               steps |-> tls_close_steps(shutdown, release)]
  /\ UNCHANGED <<dhVars, tls_bits, tls_cipher, tls_peerdn, tls_certificate_verified,
                 tls_channelbinding_b64, tls_sni, current_global_tls_state, receive,
                 sigalrm_seen, smtp_open, peer, cfg, opVars>>

\* tls_close(shutdown).  With tls_active < 0 it returns before it reads
\* shutdown, so the record of that call keeps no argument.
tls_close ==
  /\ pc = "idle"
  /\ \E shutdown \in BOOLEAN :
       IF tls_active < 0
         THEN /\ closed' = [NoClose EXCEPT !.called = TRUE]
              /\ UNCHANGED <<state_server, state_client, exim_gnutls_base_init_done,
                             tls_active, bound>>
         ELSE LET release == state_server'.session = NULL /\ state_client'.session = NULL
              IN /\ SetState(current_global_tls_state, exim_gnutls_state_init)
                 /\ bound' = [bound EXCEPT ![current_global_tls_state] = NoBinding]
                 /\ exim_gnutls_base_init_done' =
                      IF release THEN FALSE ELSE exim_gnutls_base_init_done
                 /\ tls_active' = -1
                 /\ closed' = [called |-> TRUE, shutdown |-> shutdown,
                               entry_active |-> tls_active,
                               state |-> current_global_tls_state,
                               steps |-> tls_close_steps(shutdown, release)]
  /\ UNCHANGED <<dhVars, tls_bits, tls_cipher, tls_peerdn, tls_certificate_verified,
                 tls_channelbinding_b64, tls_sni, current_global_tls_state, receive,
                 sigalrm_seen, smtp_open, peer, cfg, opVars>>

Next ==
  \/ ServerStartCall /\ UNCHANGED <<ioVars, rnd>>
  \/ ClientStartCall /\ UNCHANGED <<ioVars, rnd>>
  \/ TlsInitBase /\ UNCHANGED auxVars
  \/ ExpandSessionFiles /\ UNCHANGED auxVars
  \/ SetRemainingX509Server /\ UNCHANGED auxVars
  \/ ServerDhStep /\ UNCHANGED auxVars
  \/ SetRemainingX509ServerRest /\ UNCHANGED auxVars
  \/ SetRemainingX509Client /\ UNCHANGED auxVars
  \/ TlsInitRest /\ UNCHANGED auxVars
  \/ ServerPostInit /\ UNCHANGED auxVars
  \/ ClientPostInit /\ UNCHANGED auxVars
  \/ HandshakeCall /\ UNCHANGED auxVars
  \/ SigAlrm /\ UNCHANGED auxVars
  \/ SniCallback /\ UNCHANGED auxVars
  \/ HandshakeReturn /\ UNCHANGED auxVars
  \/ VerifyStep /\ UNCHANGED auxVars
  \/ PeerStatusStep /\ UNCHANGED auxVars
  \/ ExtractAndInstall /\ UNCHANGED auxVars
  \/ Finish /\ UNCHANGED auxVars
  \/ tls_close /\ UNCHANGED <<ioVars, rnd>>

Spec == Init /\ [][Next]_vars

\* ============================================= the record layer: SpecIO
\* The session SpecIO starts from: process Self has made one tls_server_start
\* with the settings below; it generated and cached the D-H parameters, the
\* client sent server name sni (NULL: none) and an X.509 certificate that the
\* engine found valid or not (verified), the policy was VERIFY_OPTIONAL, and the
\* start returned OK.
IoSetting == Setting("/cert", "", "/ca/file", "", NULL, NULL)

IoServerState(sni, verified) ==
  [exim_gnutls_state_init EXCEPT
     !.session = "live",
     !.x509_cred = [alloc |-> TRUE, certs |-> << <<"/cert", "/cert">> >>,
                    cas |-> <<"/ca/file">>, crls |-> <<>>],
     !.priority_cache = "NORMAL",
     !.verify_requirement = VERIFY_OPTIONAL,
     !.fd_in = 0, !.fd_out = 1,
     !.peer_cert_verified = verified,
     !.have_set_peerdn = TRUE, !.peerdn = PeerDn, !.ciphersuite = CipherLabel,
     !.received_sni = sni,
     !.tls_certificate = "/cert", !.tls_privatekey = "/cert",
     !.tls_verify_certificates = "/ca/file", !.tls_crl = "",
     !.exp_tls_certificate = "/cert", !.exp_tls_privatekey = "/cert",
     !.exp_tls_verify_certificates = "/ca/file",
     !.xfer_buffer = "xfer"]

EstablishedServer(sni, verified) ==
  /\ cache = RegFile(Pkcs3Export(GenVal(Self)) \o Newline)
  /\ cacheInit = AbsentFile
  /\ dh_server_params = [p \in Procs |-> IF p = Self THEN Params(GenVal(Self))
                                         ELSE NullParams]
  /\ dpc = [p \in Procs |-> "idle"]
  /\ temp = [p \in Procs |-> NoTemp]
  /\ mbuf = [p \in Procs |-> <<>>]
  /\ dh_rc = [p \in Procs |-> IF p = Self THEN OK ELSE "none"]
  /\ dh_err = [p \in Procs |-> ""]
  /\ opened = [p \in Procs |-> NotOpened]
  /\ generated = [p \in Procs |-> FALSE]
  /\ x509_dh = [p \in Procs |-> IF p = Self THEN [set |-> TRUE, val |-> GenVal(Self)]
                                ELSE NoDh]
  /\ state_server = IoServerState(sni, verified)
  /\ state_client = exim_gnutls_state_init
  /\ current_global_tls_state = "server"
  /\ exim_gnutls_base_init_done = TRUE
  /\ tls_active = 1
  /\ tls_bits = 128
  /\ tls_cipher = CipherLabel
  /\ tls_peerdn = PeerDn
  /\ tls_certificate_verified = verified
  /\ tls_channelbinding_b64 = "dGxzLXVuaXF1ZQ=="
  /\ tls_sni = sni
  /\ receive = TlsReceive
  /\ sigalrm_seen = FALSE
  /\ smtp_open = TRUE
  /\ bound = [r \in Roles |->
                IF r = "server"
                  THEN [cred |-> IoServerState(sni, verified).x509_cred,
                        dh |-> [set |-> TRUE, val |-> GenVal(Self)]]
                  ELSE NoBinding]
  /\ peer = [r \in Roles |-> "none"]
  /\ cfg = IoSetting
  /\ pc = "idle"
  /\ role = "none"
  /\ caller = "none"
  /\ call = NoCall
  /\ op = "none"
  /\ rc = "none"
  /\ err = ""
  /\ trace = <<>>
  /\ starts = 1
  /\ parses = [r \in Roles |-> 0]


\* ---- bounds of SpecIO
MaxTlsBytes == 3
MaxSmtpBytes == 2
MaxGetc == 6
MaxReadLen == 2
MaxSends == 3

\* The size of the transfer buffer and of the read tls_getc asks for.
ssl_xfer_buffer_size == 2

\* An int has SizeofInt octets.
SizeofInt == 2

INT_MAX == 2 ^ (8 * SizeofInt - 1) - 1

EOF == -1

Min(a, b) == IF a <= b THEN a ELSE b

\* The bytes the peer sends: n in TLS records, byte i being i, then m in clear.
TlsStream(n) == [i \in 1..n |-> i]

SmtpStream(m) == [i \in 1..m |-> 100 + i]

InitIO ==
  /\ \E sni \in {NULL, "a.example"}, verified \in BOOLEAN : EstablishedServer(sni, verified)
  /\ \E n \in 0..MaxTlsBytes : net_tls = TlsStream(n)
  /\ \E m \in 0..MaxSmtpBytes : net_smtp = SmtpStream(m)
  /\ xfer_data = <<>>
  /\ got = <<>>
  /\ fed = <<>>
  /\ bulk = <<>>
  /\ rd = NoRead
  /\ wr = NoWrite
  /\ rnd = NoRnd
  /\ closed = NoClose

\* What gnutls_record_recv(session, buf, size) can return: the length of a
\* record of at most size bytes, 0 when the peer has closed the TLS session
\* (which it does after its last record), or a negative error code.
RecordRecv(size) ==
  {n \in 1..size : n <= Len(net_tls)} \cup (IF net_tls = <<>> THEN {0} ELSE {}) \cup {-1}

Drop(q, n) == SubSeq(q, n + 1, Len(q))

\* smtp_getc(): the next byte in clear, EOF when there is none.
smtp_getc ==
  /\ got' = Append(got, IF net_smtp = <<>> THEN EOF ELSE Head(net_smtp))
  /\ net_smtp' = IF net_smtp = <<>> THEN net_smtp ELSE Tail(net_smtp)

\* A wrong fallback: the session is marked errored as after a failed read.
tls_getc_fallback_errored(r) ==
  /\ receive' = SmtpReceive
  /\ SetState(r, [State(r) EXCEPT !.session = NULL, !.xfer_error = 1])
  /\ tls_active' = -1
  /\ tls_bits' = 0
  /\ tls_certificate_verified' = FALSE
  /\ tls_channelbinding_b64' = NULL
  /\ tls_cipher' = NULL
  /\ tls_peerdn' = NULL
  /\ smtp_getc
  /\ UNCHANGED <<tls_sni, net_tls, xfer_data, fed>>

\* tls_getc, "if (inbytes == 0)": revert to non-TLS handling, return smtp_getc().
tls_getc_fallback(r) ==
  /\ receive' = SmtpReceive
  /\ SetState(r, [State(r) EXCEPT !.session = NULL])
  /\ tls_active' = -1
  /\ tls_bits' = 0
  /\ tls_certificate_verified' = FALSE
  /\ tls_channelbinding_b64' = NULL
  /\ tls_cipher' = NULL
  /\ tls_peerdn' = NULL
  /\ smtp_getc
  /\ UNCHANGED <<tls_sni, net_tls, xfer_data, fed>>

\* A wrong error branch: EOF is returned without setting xfer_error.
tls_getc_error_unmarked(r) ==
  /\ got' = Append(got, EOF)
  /\ UNCHANGED <<factVars, receive, state_server, state_client, net_tls, net_smtp,
                 xfer_data, fed>>

\* tls_getc, "else if (inbytes < 0)": record_io_error, xfer_error, return EOF.
tls_getc_error(r) ==
  /\ SetState(r, [State(r) EXCEPT !.xfer_error = 1])
  /\ got' = Append(got, EOF)
  /\ UNCHANGED <<factVars, receive, net_tls, net_smtp, xfer_data, fed>>

\* A wrong refill: the first byte is returned without moving xfer_buffer_lwm.
tls_getc_refill_repeating(r, inbytes) ==
  LET record == SubSeq(net_tls, 1, inbytes) IN
  /\ xfer_data' = record
  /\ net_tls' = Drop(net_tls, inbytes)
  /\ fed' = fed \o record
  /\ SetState(r, [State(r) EXCEPT !.xfer_buffer_hwm = inbytes, !.xfer_buffer_lwm = 0])
  /\ got' = Append(got, record[1])
  /\ UNCHANGED <<factVars, receive, net_smtp>>

\* A wrong refill: the record is not given to dkim_exim_verify_feed.
tls_getc_refill_unfed(r, inbytes) ==
  LET record == SubSeq(net_tls, 1, inbytes) IN
  /\ xfer_data' = record
  /\ net_tls' = Drop(net_tls, inbytes)
  /\ SetState(r, [State(r) EXCEPT !.xfer_buffer_hwm = inbytes, !.xfer_buffer_lwm = 1])
  /\ got' = Append(got, record[1])
  /\ UNCHANGED <<factVars, receive, net_smtp, fed>>

\* tls_getc with an empty buffer and inbytes > 0: the record goes into the
\* buffer and to dkim_exim_verify_feed, and its first byte is returned.
tls_getc_refill(r, inbytes) ==
  LET record == SubSeq(net_tls, 1, inbytes) IN
  /\ xfer_data' = record
  /\ net_tls' = Drop(net_tls, inbytes)
  /\ fed' = fed \o record
  /\ SetState(r, [State(r) EXCEPT !.xfer_buffer_hwm = inbytes, !.xfer_buffer_lwm = 1])
  /\ got' = Append(got, record[1])
  /\ UNCHANGED <<factVars, receive, net_smtp>>

\* A wrong read from the buffer: the cursor moves on by two.
tls_getc_buffered_skipping(r) ==
  LET st == State(r) IN
  /\ got' = Append(got, xfer_data[st.xfer_buffer_lwm + 1])
  /\ SetState(r, [st EXCEPT !.xfer_buffer_lwm = @ + 2])
  /\ UNCHANGED <<factVars, receive, net_tls, net_smtp, xfer_data, fed>>

\* tls_getc with bytes in the buffer: "return state->xfer_buffer[state->xfer_buffer_lwm++]".
tls_getc_buffered(r) ==
  LET st == State(r) IN
  /\ got' = Append(got, xfer_data[st.xfer_buffer_lwm + 1])
  /\ SetState(r, [st EXCEPT !.xfer_buffer_lwm = @ + 1])
  /\ UNCHANGED <<factVars, receive, net_tls, net_smtp, xfer_data, fed>>

\* tls_getc().
tls_getc ==
  LET r == current_global_tls_state
      st == State(r)
  IN
  IF st.xfer_buffer_lwm >= st.xfer_buffer_hwm
    THEN \E inbytes \in RecordRecv(ssl_xfer_buffer_size) :
           IF inbytes = 0 THEN tls_getc_fallback(r)
           ELSE IF inbytes < 0 THEN tls_getc_error(r)
           ELSE tls_getc_refill(r, inbytes)
    ELSE tls_getc_buffered(r)

\* A caller reads one byte through receive_getc.
ReceiveGetc ==
  /\ pc = "idle"
  /\ Len(got) < MaxGetc
  /\ IF receive.getc = "tls_getc"
       THEN tls_getc
       ELSE /\ smtp_getc
            /\ UNCHANGED <<factVars, receive, state_server, state_client, net_tls,
                           xfer_data, fed>>
  /\ UNCHANGED <<dhVars, current_global_tls_state, exim_gnutls_base_init_done,
                 sigalrm_seen, smtp_open, bound, peer, cfg, opVars, bulk, rd, wr, rnd,
                 closed>>

\* tls_read(buff, len) on the live session: the record goes to the caller's
\* buffer; the transfer buffer and dkim_exim_verify_feed are not involved.
tls_read ==
  /\ pc = "idle"
  /\ State(current_global_tls_state).session # NULL
  /\ \E len \in 1..MaxReadLen :
       \E inbytes \in RecordRecv(Min(len, INT_MAX)) :
         IF inbytes > 0
           THEN /\ bulk' = bulk \o SubSeq(net_tls, 1, inbytes)
                /\ net_tls' = Drop(net_tls, inbytes)
                /\ rd' = [len |-> len, inbytes |-> inbytes, io_error |-> FALSE,
                          ret |-> inbytes]
           ELSE /\ rd' = [len |-> len, inbytes |-> inbytes, io_error |-> inbytes < 0,
                          ret |-> -1]
                /\ UNCHANGED <<bulk, net_tls>>
  /\ UNCHANGED <<dhVars, sessVars, net_smtp, xfer_data, got, fed, wr, rnd, closed>>


\* The lengths tls_write is called with.
WriteLens == (0..MaxSends) \cup {INT_MAX, INT_MAX + 1}

\* What the engine is ready to take in one gnutls_record_send: an error, 0, one
\* or two bytes, or as many as are offered (never more than that).
ALL == INT_MAX + 1

SendAnswers == {-1, 0, 1, 2, ALL}

RECURSIVE SeqsUpTo(_, _)
SeqsUpTo(S, n) ==
  IF n = 0 THEN {<<>>}
  ELSE LET shorter == SeqsUpTo(S, n - 1) IN
       shorter \cup {Append(q, x) : q \in shorter, x \in S}

\* A wrong loop: "left -= outbytes" without "buff += outbytes", every send
\* offers the buffer from its start.
RECURSIVE tls_write_loop_rewinding(_, _, _, _)
tls_write_loop_rewinding(len, left, answers, sends) ==
  IF left > 0
    THEN IF answers = <<>> THEN [returned |-> FALSE, ret |-> 0, sends |-> sends, rest |-> answers]
         ELSE LET outbytes == Min(Head(answers), left)
                  send == [off |-> 0, left |-> left, outbytes |-> outbytes]
              IN IF outbytes <= 0
                   THEN [returned |-> TRUE, ret |-> -1, sends |-> Append(sends, send),
                         rest |-> Tail(answers)]
                   ELSE tls_write_loop_rewinding(len, left - outbytes, Tail(answers),
                                                 Append(sends, send))
    ELSE [returned |-> TRUE, ret |-> IF len > INT_MAX THEN INT_MAX ELSE len,
          sends |-> sends, rest |-> answers]

\* tls_write from "while (left > 0)": each send offers the left bytes at
\* buff (off bytes into the caller's buffer) and the engine answers with the
\* next of answers; the result is whether tls_write returned (it has not when
\* a send is left unanswered), what it returned, the sends it made and the
\* answers it did not get to.
RECURSIVE tls_write_loop(_, _, _, _)
tls_write_loop(len, left, answers, sends) ==
  IF left > 0
    THEN IF answers = <<>> THEN [returned |-> FALSE, ret |-> 0, sends |-> sends, rest |-> answers]
         ELSE LET outbytes == Min(Head(answers), left)
                  send == [off |-> len - left, left |-> left, outbytes |-> outbytes]
              IN IF outbytes <= 0
                   THEN [returned |-> TRUE, ret |-> -1, sends |-> Append(sends, send),
                         rest |-> Tail(answers)]
                   ELSE tls_write_loop(len, left - outbytes, Tail(answers),
                                       Append(sends, send))
    ELSE [returned |-> TRUE, ret |-> IF len > INT_MAX THEN INT_MAX ELSE len,
          sends |-> sends, rest |-> answers]

\* tls_write(buff, len) on the live session, the engine answering its sends
\* with answers, one each.
tls_write ==
  /\ pc = "idle"
  /\ State(current_global_tls_state).session # NULL
  /\ \E len \in WriteLens, answers \in SeqsUpTo(SendAnswers, MaxSends) :
       LET w == tls_write_loop(len, len, answers, <<>>) IN
       /\ w.returned
       /\ w.rest = <<>>
       /\ wr' = [len |-> len, ret |-> w.ret, sends |-> w.sends]
  /\ UNCHANGED <<dhVars, sessVars, net_tls, net_smtp, xfer_data, got, fed, bulk, rd, rnd,
                 closed>>

\* SpecIO: the reading side of the established session.
NextIO ==
  \/ ReceiveGetc
  \/ tls_read

SpecIO == InitIO /\ [][NextIO]_vars

\* SpecWrite: the writing side; tls_write shares nothing with the readers but
\* the session handle.
NextWrite == tls_write

\* tls_write does not look at the reading side: nothing is waiting to be read.
InitWrite == InitIO /\ net_tls = <<>> /\ net_smtp = <<>>

SpecWrite == InitWrite /\ [][NextWrite]_vars

\* ------------------------------------------------ vaguely_random_number
\* The octets gnutls_rnd may put into smallbuf.
RndBytes == {0, 1, 127, 128, 255}

\* The arguments tried: the ends of int, the values around 1, and values that
\* need one octet, two octets and every octet of r.
RndMaxes == {-INT_MAX - 1, -1, 0, 1, 2, 3, 10, 255, 256, 257, 1000, INT_MAX}

\* unsigned int arithmetic is modulo UINT_MAX + 1.
UIntModulus == 2 ^ (8 * SizeofInt)

\* for (r = max, i = 0; r; ++i) r >>= 1;
RECURSIVE BitLength(_)
BitLength(r) == IF r = 0 THEN 0 ELSE 1 + BitLength(r \div 2)

\* needed_len = sizeof(r); i = (i + 7) / 8; if (i < needed_len) needed_len = i;
NeededLen(max) == Min(SizeofInt, (BitLength(max) + 7) \div 8)

\* for (p = smallbuf; needed_len; --needed_len, ++p) { r *= 256; r += *p; }
\* in unsigned int: the top octet of r falls off in r *= 256.
RECURSIVE BigEndian(_, _)
BigEndian(r, buf) ==
  IF buf = <<>> THEN r
  ELSE BigEndian((r % (UIntModulus \div 256)) * 256 + Head(buf), Tail(buf))

\* An unsigned int value converted to int, as the return statement does.
ToInt(u) == IF u > INT_MAX THEN u - UIntModulus ELSE u

\* vaguely_random_number_fallback is defined outside this file; it returns a
\* number in [0, max-1], of which the two ends are tried.
vaguely_random_number_fallback(max) == {0, max - 1}

\* A wrong generator: the octets are returned without the reduction by max.
vaguely_random_number_unreduced(max, i, buf, fb) ==
  IF max <= 1
    THEN [pc |-> "early", max |-> max, needed_len |-> 0, asked |-> 0,
          smallbuf |-> <<>>, ret |-> 0]
  ELSE IF i < 0
    THEN [pc |-> "fallback", max |-> max, needed_len |-> NeededLen(max),
          asked |-> NeededLen(max), smallbuf |-> <<>>, ret |-> fb]
  ELSE [pc |-> "rnd", max |-> max, needed_len |-> NeededLen(max),
        asked |-> NeededLen(max), smallbuf |-> buf,
        ret |-> ToInt(BigEndian(0, buf))]

\* One call of vaguely_random_number(max) in a build with HAVE_GNUTLS_RND: i
\* is what gnutls_rnd returns, buf what it wrote, fb what the fallback would
\* return. asked is the number of octets requested from gnutls_rnd.
vaguely_random_number_call(max, i, buf, fb) ==
  IF max <= 1
    THEN [pc |-> "early", max |-> max, needed_len |-> 0, asked |-> 0,
          smallbuf |-> <<>>, ret |-> 0]
  ELSE IF i < 0
    THEN [pc |-> "fallback", max |-> max, needed_len |-> NeededLen(max),
          asked |-> NeededLen(max), smallbuf |-> <<>>, ret |-> fb]
  ELSE [pc |-> "rnd", max |-> max, needed_len |-> NeededLen(max),
        asked |-> NeededLen(max), smallbuf |-> buf,
        ret |-> ToInt(BigEndian(0, buf) % max)]

vaguely_random_number ==
  /\ \E max \in RndMaxes, i \in {0, -1} :
       IF max <= 1
         THEN i = 0 /\ rnd' = vaguely_random_number_call(max, i, <<>>, 0)
       ELSE IF i < 0
         THEN \E fb \in vaguely_random_number_fallback(max) :
                rnd' = vaguely_random_number_call(max, i, <<>>, fb)
       ELSE \E buf \in [1..NeededLen(max) -> RndBytes] :
              rnd' = vaguely_random_number_call(max, i, buf, 0)
  /\ UNCHANGED <<dhVars, sessVars, ioVars, closed>>

NextRnd == vaguely_random_number

SpecRnd == Init /\ [][NextRnd]_vars


\* ------------------------------------------------ D-H cache: the claims
\* Labels of init_server_dh errors that say the existing cache file is unusable.
BadCacheLabels ==
  {"TLS cache not a file", "fread failed", "gnutls_dh_params_import_pkcs3"}

InRegeneration(p) ==
  dpc[p] \in {"mkstemp", "generate", "export", "write", "newline", "close", "rename"}

\* C1: whatever the cache file is (absent, valid, unparseable, zero-length, not
\* a regular file), a run of init_server_dh in which no system or engine call
\* fails for another reason returns OK and leaves a loadable file at the path.
C1_SelfHealing ==
  \A p \in Procs :
    (dpc[p] = "ret" /\ opened[p].kind # "none"
       /\ dh_err[p] \in BadCacheLabels \cup {""})
      => (dh_rc[p] = OK /\ Loadable(cache))

\* C2: a run that finds a complete cache file at the path generates nothing,
\* creates no temp file, leaves the file as it is and, unless a system call
\* fails, returns OK with the parameters of that file; a later
\* tls_set_remaining_x509 in a process that already holds parameters does not
\* run init_server_dh at all.
C2_SecondRunReadsCache ==
  [][\A p \in Procs :
       /\ \A v \in ParamVals :
            (dpc[p] = "open" /\ dpc'[p] # "open"
               /\ cache = RegFile(Pkcs3Export(v) \o Newline))
              => /\ cache' = cache
                 /\ dpc'[p] = "ret"
                 /\ ~temp'[p].exists
                 /\ ~generated'[p]
                 /\ dh_err'[p] \notin EnvReadFailures
                      => (dh_rc'[p] = OK /\ dh_server_params'[p] = Params(v))
       /\ (dpc[p] = "idle" /\ dpc'[p] # "idle" /\ dh_server_params[p].val \in ParamVals)
            => /\ dpc'[p] = "attach"
               /\ cache' = cache
               /\ dh_server_params'[p] = dh_server_params[p]
               /\ ~temp'[p].exists
               /\ ~generated'[p]
    ]_vars

\* C2 witness: the cache file was absent at first, a run wrote it, and a later
\* run has read it and returned OK without generating.
C2_Witness ==
  \E p \in Procs :
    /\ cacheInit = AbsentFile
    /\ dpc[p] = "ret"
    /\ opened[p].kind = "reg"
    /\ IsComplete(opened[p].data)
    /\ dh_rc[p] = OK
    /\ ~generated[p]
    /\ dh_server_params[p] = Params(Pkcs3Import(cache.data).val)

InTrace(event) == \E i \in 1..Len(trace) : trace[i] = event

Returned(operation) == pc = "returned" /\ op = operation

\* The handshake of the operation in progress has succeeded.
Negotiated == pc \in {"verify", "peer_status", "extract"}

\* C4: a tls_server_start entered with tls_active >= 0 returns FAIL at once:
\* its only effect is the "554 Already in TLS" response; the two state blocks,
\* the bound credentials, the D-H state, current_global_tls_state, the
\* published facts, the receive functions and the library-initialised flag are
\* as they were, and no step of tls_init or of the handshake runs.
C4_ReentryRejected ==
  [][(pc = "idle" /\ op' = "tls_server_start" /\ tls_active >= 0)
       => /\ pc' = "returned"
          /\ rc' = FAIL
          /\ trace' = <<"554 Already in TLS">>
          /\ UNCHANGED <<state_server, state_client, bound, dhVars,
                         current_global_tls_state, factVars, receive,
                         exim_gnutls_base_init_done, smtp_open>>]_vars

\* C4 witness: a server start that found a session active has returned FAIL.
C4_Witness ==
  /\ Returned("tls_server_start")
  /\ call.entry_active >= 0
  /\ rc = FAIL
  /\ state_server.session # NULL

\* C5: tls_server_start returns OK, DEFER or FAIL; DEFER only when no
\* gnutls_handshake call was made in it; FAIL only when a handshake call was
\* made or a session was already active on entry; OK only with the session
\* established.
C5_ServerReturnCodes ==
  Returned("tls_server_start") =>
    /\ rc \in {OK, DEFER, FAIL}
    /\ rc = DEFER => (~InTrace("gnutls_handshake") /\ call.entry_active < 0)
    /\ rc = FAIL => (InTrace("gnutls_handshake") \/ call.entry_active >= 0)
    /\ rc = OK => /\ InTrace("gnutls_handshake")
                  /\ tls_active = state_server.fd_out
                  /\ tls_active >= 0
                  /\ receive = TlsReceive

\* C5 witness: the resolver failed inside the SNI callback, during the
\* handshake, and the server start returned FAIL.
C5_Witness ==
  /\ Returned("tls_server_start")
  /\ call.cb_failed
  /\ InTrace("gnutls_handshake")
  /\ rc = FAIL

\* What tls_client_start returns DEFER for.
ClientDeferLabels ==
  {"expand tls_certificate", "expand tls_privatekey", "expand tls_verify_certificates",
   "expand tls_crl", "could not stat", "is a directory", "expand tls_sni",
   "expand tls_require_ciphers"}

\* C6, as claimed: a tls_client_start that returns before any handshake call
\* returns FAIL.
C6_Original ==
  (Returned("tls_client_start") /\ ~InTrace("gnutls_handshake")) => rc = FAIL

\* C6: a tls_client_start that returns before any handshake call returns FAIL
\* for the errors reported through tls_error (allocation, key pair, trust
\* file, CRL file, server name, priority string) and DEFER for a failed
\* expansion and for a trust store that cannot be stat'ed or is a directory;
\* never OK.
C6_ClientSetupErrors ==
  (Returned("tls_client_start") /\ ~InTrace("gnutls_handshake")) =>
    /\ rc \in {FAIL, DEFER}
    /\ rc = DEFER <=> err \in ClientDeferLabels

\* C6 witness: the client's trust store is a directory and the start returned
\* DEFER.
C6_Witness ==
  /\ Returned("tls_client_start")
  /\ err = "is a directory"
  /\ rc = DEFER

FactsUnset ==
  /\ tls_active = -1
  /\ tls_bits = 0
  /\ tls_cipher = NULL
  /\ tls_peerdn = NULL
  /\ tls_certificate_verified = FALSE
  /\ tls_channelbinding_b64 = NULL
  /\ tls_sni = NULL

\* C7, as claimed: after the bad-certificate alert the start operation has
\* returned FAIL with tls_active -1, no session fact published and the
\* receive functions those of plain SMTP.
C7_Original ==
  (pc = "returned" /\ InTrace("alert bad_certificate")) =>
    /\ rc = FAIL
    /\ FactsUnset
    /\ receive = SmtpReceive

\* C7: under VERIFY_REQUIRED a failed verification never lets the start
\* operation go on; the step that rejects sends the alert last and returns
\* FAIL, and leaves tls_active, tls_bits, tls_peerdn, tls_certificate_verified,
\* tls_channelbinding_b64 and the receive functions alone; no step between the
\* entry of a start operation and its extract_exim_vars_from_tls_state changes
\* tls_active, tls_bits, tls_certificate_verified, tls_channelbinding_b64 or
\* the receive functions, so they are as on entry (tls_cipher is not: peer_status
\* has set it).
C7_RequiredFailureRejects ==
  [][/\ (pc = "verify" /\ pc' = "returned")
          => /\ State(role).verify_requirement = VERIFY_REQUIRED
             /\ rc' = FAIL
             /\ trace' = Append(trace, "alert bad_certificate")
             /\ tls_active = call.entry_active
             /\ UNCHANGED <<tls_active, tls_bits, tls_peerdn, tls_certificate_verified,
                            tls_channelbinding_b64, receive>>
     /\ (pc = "verify" /\ pc' = "peer_status"
           /\ State(role).verify_requirement = VERIFY_REQUIRED)
          => State(role)'.peer_cert_verified
     /\ pc \notin {"idle", "extract"}
          => UNCHANGED <<tls_active, tls_bits, tls_certificate_verified,
                         tls_channelbinding_b64, receive>>]_vars

\* C7 witness: a client start inside an established server session was
\* rejected: FAIL, the alert sent, tls_active still the server's descriptor,
\* the receive functions still the TLS ones, tls_cipher set.
C7_Witness ==
  /\ Returned("tls_client_start")
  /\ InTrace("alert bad_certificate")
  /\ rc = FAIL
  /\ tls_active = state_server.fd_out
  /\ tls_active >= 0
  /\ receive = TlsReceive
  /\ tls_cipher = CipherLabel

Failed(p, o) == p.rc # OK \/ o.neg \/ o.invalid \/ o.revoked

\* C8: verify_certificate rejects only under VERIFY_REQUIRED; a failed
\* verification under another policy is accepted with peer_cert_verified
\* FALSE, and peer_cert_verified is TRUE exactly when peer_status returned OK
\* and the engine reported no error, not invalid and not revoked; a server
\* start under VERIFY_OPTIONAL whose handshake succeeded returns OK, with
\* tls_certificate_verified the recorded flag.
C8_RejectOnlyWhenRequired ==
  /\ (pc = "verify" /\ State(role).verify_requirement # VERIFY_NONE) =>
       \A o \in EngineAnswers(peer[role], bound[role].cred) :
         LET st == State(role)
             v == verify_certificate(st, peer[role], o)
             p == peer_status(st, peer[role])
         IN /\ ~v.accept => st.verify_requirement = VERIFY_REQUIRED
            /\ (Failed(p, o) /\ st.verify_requirement # VERIFY_REQUIRED)
                 => (v.accept /\ ~v.st.peer_cert_verified)
            /\ v.st.peer_cert_verified <=> ~Failed(p, o)
  /\ (Returned("tls_server_start") /\ InTrace("gnutls_handshake")
        /\ state_server.verify_requirement = VERIFY_OPTIONAL
        /\ state_server.have_set_peerdn)
       => /\ rc = OK
          /\ tls_certificate_verified = state_server.peer_cert_verified
  /\ \A r \in Roles :
       State(r).verify_requirement = VERIFY_NONE => ~State(r).peer_cert_verified

\* C8 witness: a server session under VERIFY_OPTIONAL is established although
\* the certificate of the peer could not be parsed; the flag is FALSE.
C8_Witness ==
  /\ Returned("tls_server_start")
  /\ rc = OK
  /\ state_server.verify_requirement = VERIFY_OPTIONAL
  /\ peer["server"] = "unparsable"
  /\ ~tls_certificate_verified
  /\ tls_active >= 0

\* C9: for a peer that presented no certificate, verify_certificate under
\* VERIFY_REQUIRED rejects with the reason "not supplied" after the alert, and
\* the start operation returns FAIL with that reason; under VERIFY_OPTIONAL
\* or VERIFY_NONE it accepts with peer_cert_verified FALSE and peer_status
\* returns OK.
C9_NoCertificate ==
  /\ (Negotiated /\ peer[role] = "none" /\ ~State(role).have_set_peerdn) =>
       \A o \in EngineAnswers("none", bound[role].cred) :
         LET st == State(role)
             v == verify_certificate(st, "none", o)
             p == peer_status(st, "none")
         IN IF st.verify_requirement = VERIFY_REQUIRED
              THEN ~v.accept /\ v.error = "not supplied" /\ v.alert
              ELSE v.accept /\ ~v.st.peer_cert_verified /\ p.rc = OK
  /\ \A r \in Roles :
       (pc = "returned" /\ role = r /\ peer[r] = "none" /\ InTrace("gnutls_handshake")
          /\ State(r).have_set_peerdn)
         => IF State(r).verify_requirement = VERIFY_REQUIRED
              THEN rc = FAIL /\ err = "not supplied"
              ELSE rc = OK /\ ~tls_certificate_verified

\* C9 witness: a client that requires verification got no certificate from
\* the server and its start returned FAIL, "not supplied".
C9_Witness ==
  /\ Returned("tls_client_start")
  /\ state_client.verify_requirement = VERIFY_REQUIRED
  /\ peer["client"] = "none"
  /\ err = "not supplied"
  /\ rc = FAIL

\* C10: in one session the certificate is parsed at most once, and a call of
\* peer_status on a state block whose have_set_peerdn is set returns OK and
\* leaves peerdn and ciphersuite (and the published tls_cipher) as they are.
C10_PeerStatusOnce ==
  /\ [](\A r \in Roles : parses[r] <= 1)
  /\ [][(pc \in {"verify", "peer_status"} /\ State(role).have_set_peerdn)
          => /\ State(role)'.peerdn = State(role).peerdn
             /\ State(role)'.ciphersuite = State(role).ciphersuite
             /\ tls_cipher' = tls_cipher
             /\ parses' = parses
             /\ pc = "peer_status" => pc' = "extract"]_vars

\* C10 witness: verify_certificate and then the start operation itself called
\* peer_status; the distinguished name of the one parse is cached.
C10_Witness ==
  /\ pc = "extract"
  /\ State(role).verify_requirement # VERIFY_NONE
  /\ State(role).have_set_peerdn
  /\ parses[role] = 1
  /\ State(role).peerdn = PeerDn

\* ------------------------------------------- the state block: write-once
\* The step resets the state block of role r: the memcpy of
\* exim_gnutls_state_init in tls_init or in tls_close.
ResetOf(r) ==
  \/ pc = "tls_init" /\ role = r
  \/ State(r)' = exim_gnutls_state_init

Unset(x) == x = NULL \/ x = ""

\* The credential set cred holds nothing but what the expanded settings of
\* state block st name: at most one key pair, one trust file and one CRL file.
OnlyLatest(cred, st) ==
  /\ Len(cred.certs) <= 1
  /\ \A i \in 1..Len(cred.certs) :
       cred.certs[i] = <<st.exp_tls_certificate, st.exp_tls_privatekey>>
  /\ Len(cred.cas) <= 1
  /\ \A i \in 1..Len(cred.cas) : cred.cas[i] = st.exp_tls_verify_certificates
  /\ Len(cred.crls) <= 1
  /\ \A i \in 1..Len(cred.crls) : cred.crls[i] = st.exp_tls_crl

\* The SNI callback has re-resolved the credentials and returned 0.
Reresolved == caller = "sni_cb" /\ ~call.cb_failed /\ pc \notin {"expand", "set_x509", "dh"}

\* C12: the credential set of a state block holds only what the latest run of
\* tls_expand_session_files loaded, never more than one key pair, trust file
\* or CRL file; a resolver run that goes on to tls_set_remaining_x509 has
\* loaded the key pair of its own expansion; and after a re-resolution in the
\* SNI callback the session is bound to exactly that set, with the D-H
\* parameters the process holds.
C12_FreshCredentials ==
  /\ \A r \in Roles : OnlyLatest(State(r).x509_cred, State(r))
  /\ (caller = "tls_init" /\ pc \in {"init_rest", "post_init", "handshake", "in_handshake",
                                      "verify", "peer_status", "extract"})
       => bound[role].cred = State(role).x509_cred
  /\ pc \in {"set_x509", "dh"} =>
       LET st == State(role) IN
       /\ st.x509_cred.alloc
       /\ ~Unset(st.exp_tls_certificate) => Len(st.x509_cred.certs) = 1
  /\ Reresolved =>
       /\ bound["server"].cred = state_server.x509_cred
       /\ Len(bound["server"].cred.certs) = 1
       /\ bound["server"].dh = x509_dh[Self]
       /\ x509_dh[Self] = [set |-> TRUE, val |-> dh_server_params[Self].val]
       /\ dh_server_params[Self].alloc

\* C12 witness: the first resolution loaded the default key pair, the callback
\* re-resolved for the server name the client sent, and the session is bound
\* to a set with that name's key pair alone, the trust file and the CRL file.
C12_Witness ==
  /\ Reresolved
  /\ pc = "extract"
  /\ state_server.received_sni = "a.example"
  /\ bound["server"].cred =
       [alloc |-> TRUE, certs |-> << <<"/cert/a.example", "/cert/a.example">> >>,
        cas |-> <<"/ca/file">>, crls |-> <<"/crl">>]
  /\ bound["server"].dh = [set |-> TRUE, val |-> GenVal(Self)]

\* The labels of the errors tls_expand_session_files returns.
ResolverLabels ==
  {"gnutls_certificate_allocate_credentials", "expand tls_certificate",
   "no TLS server certificate is specified", "expand tls_privatekey", "cert/key setup",
   "expand tls_verify_certificates", "expand tls_crl", "could not stat", "is a directory",
   "gnutls_certificate_set_x509_trust_file", "gnutls_certificate_set_x509_crl_file"}

\* What C13 compares of a state block after a run of the resolver.
Resolved(st) ==
  <<st.x509_cred, st.exp_tls_certificate, st.exp_tls_privatekey,
    st.exp_tls_verify_certificates, st.exp_tls_crl, st.trigger_sni_changes>>

\* tls_expand_session_files run again on the state block a run of it has just
\* left gives the same return code, the same credential set and the same
\* expanded settings and SNI-retrigger flag, whether the first run returned OK
\* or an error.
ExpandIdempotent ==
  /\ pc = "set_x509" =>
       LET st == State(role)
           r == tls_expand_session_files(st, tls_sni, TRUE)
       IN r.rc = OK /\ Resolved(r.st) = Resolved(st)
  /\ (pc = "returned" /\ err \in ResolverLabels) =>
       LET st == State(role)
           r == tls_expand_session_files(st, tls_sni,
                                         err # "gnutls_certificate_allocate_credentials")
       IN r.rc = rc /\ r.err = err /\ Resolved(r.st) = Resolved(st)

\* C13: the resolver is idempotent.  tls_expand_session_files is (ExpandIdempotent);
\* and a run of tls_set_remaining_x509 that reads nothing, because the process
\* already holds a D-H handle, returns for the D-H part what the run before it
\* in this process returned.
C13_ResolverIdempotent ==
  /\ []ExpandIdempotent
  /\ [][\A p \in Procs :
          (dpc[p] = "idle" /\ dpc'[p] = "attach" /\ dh_rc[p] # "none")
            => dh_rc'[p] = dh_rc[p]]_vars

\* The paths of the file system that are directories.
Directories == {"/ca/dir"}

\* The configured trust store expands to the path of a directory.
TrustIsDir ==
  LET v == expand_check(cfg.verify_certificates, tls_sni) IN
  ~Unset(cfg.verify_certificates) /\ v.ok /\ v.val \in Directories

\* C14: with a trust-store setting that expands to a directory no run of
\* tls_expand_session_files returns OK, whatever the role: the start operation
\* never gets past the resolver and never returns OK, a run that reaches the
\* trust store returns DEFER, and no credential set holds a trust anchor.
C14_DirectoryIsSetupError ==
  TrustIsDir =>
    /\ pc \in {"idle", "tls_init", "expand", "returned"}
    /\ pc = "expand" =>
         \A alloc_ok \in BOOLEAN :
           tls_expand_session_files(State(role), tls_sni, alloc_ok).rc \in {DEFER, FAIL}
    /\ pc = "returned" => rc \in {DEFER, FAIL}
    /\ (pc = "returned" /\ err = "is a directory") =>
         /\ rc = DEFER
         /\ State(role).exp_tls_verify_certificates = cfg.verify_certificates
    /\ \A r \in Roles : State(r).x509_cred.cas = <<>> /\ bound[r].cred.cas = <<>>
    /\ tls_active = -1

\* C14 witness: a server start whose trust store is a directory has returned
\* DEFER from the resolver, after the key pair was loaded.
C14_Witness ==
  /\ Returned("tls_server_start")
  /\ TrustIsDir
  /\ err = "is a directory"
  /\ rc = DEFER
  /\ Len(state_server.x509_cred.certs) = 1
  /\ state_server.x509_cred.cas = <<>>

\* The paths of the file system that are zero-byte files.
EmptyFiles == {"/ca/empty"}

\* The configured trust store expands to the path of a zero-byte file.
TrustIsEmpty ==
  LET v == expand_check(cfg.verify_certificates, tls_sni) IN
  ~Unset(cfg.verify_certificates) /\ v.ok /\ v.val \in EmptyFiles

\* With a zero-byte trust store the resolver returns OK (when the allocation
\* works and the key pair loads) and no credential set holds a trust anchor
\* or a CRL.
EmptyTrustResolves ==
  /\ pc = "expand" =>
       LET r == tls_expand_session_files(State(role), tls_sni, TRUE) IN
       r.rc = OK \/ r.err = "cert/key setup"
  /\ \A r \in Roles :
       /\ State(r).x509_cred.cas = <<>> /\ State(r).x509_cred.crls = <<>>
       /\ bound[r].cred.cas = <<>> /\ bound[r].cred.crls = <<>>

\* C15, as claimed: with a zero-byte trust store the resolver returns OK
\* without trust anchors or CRL, and no start operation is failed by the
\* verify step for want of trust anchors.
C15_Original ==
  TrustIsEmpty =>
    /\ EmptyTrustResolves
    /\ ~(pc = "returned" /\ rc # OK /\ err = "invalid")

\* C15: with a zero-byte trust store the resolver returns OK without trust
\* anchors or CRL; the policy is what it would be for any trust store
\* (VERIFY_REQUIRED in the client); verify_certificate never records the peer
\* as verified, so under VERIFY_REQUIRED it rejects and the start operation
\* returns FAIL, and under VERIFY_OPTIONAL it accepts with peer_cert_verified
\* FALSE.
C15_EmptyTrustStore ==
  TrustIsEmpty =>
    /\ EmptyTrustResolves
    /\ (role = "client" /\ pc \in {"handshake", "in_handshake", "verify"})
         => state_client.verify_requirement = VERIFY_REQUIRED
    /\ (pc = "verify" /\ State(role).verify_requirement # VERIFY_NONE) =>
         \A o \in EngineAnswers(peer[role], bound[role].cred) :
           LET v == verify_certificate(State(role), peer[role], o) IN
           /\ ~v.st.peer_cert_verified
           /\ v.accept <=> State(role).verify_requirement = VERIFY_OPTIONAL
    /\ (pc = "returned" /\ InTrace("gnutls_handshake") /\ State(role).have_set_peerdn
          /\ State(role).verify_requirement = VERIFY_REQUIRED)
         => (rc = FAIL /\ InTrace("alert bad_certificate"))
    /\ ~tls_certificate_verified

\* C15 witness: a client whose trust store is a zero-byte file met a server
\* with an X.509 certificate; the start returned FAIL, "invalid".
C15_Witness ==
  /\ Returned("tls_client_start")
  /\ TrustIsEmpty
  /\ peer["client"] = "x509"
  /\ bound["client"].cred.cas = <<>>
  /\ rc = FAIL
  /\ err = "invalid"

\* ------------------------------------------------ the record layer: claims
IsTlsByte(b) == b >= 1 /\ b <= 100

IsSmtpByte(b) == b > 100

\* The bytes of the transfer buffer that tls_getc has not returned yet.
Unread ==
  LET st == State(current_global_tls_state) IN
  SubSeq(xfer_data, st.xfer_buffer_lwm + 1, st.xfer_buffer_hwm)

\* q is the start of the stream whose i-th byte is base + i.
CountsFrom(q, base) == \A i \in 1..Len(q) : q[i] = base + i

\* Every read so far went through receive_getc and no read returned an error.
ByteWiseOnly == bulk = <<>> /\ State(current_global_tls_state).xfer_error = 0

\* C16: when every read goes through receive_getc and the transport delivers
\* its TLS bytes in records and then a zero-length read, the calls return the
\* TLS bytes in order, each once, then the bytes sent in clear, in order, each
\* once, and EOF only when those are used up; the receive functions change
\* from the TLS ones to the plain ones in the call that got the zero-length
\* read, which itself returns the first byte sent in clear, and never change
\* back.
C16_ByteWiseFallback ==
  /\ [](ByteWiseOnly =>
          LET t == SelectSeq(got, IsTlsByte)
              p == SelectSeq(got, IsSmtpByte)
          IN /\ CountsFrom(t \o Unread \o net_tls, 0)
             /\ CountsFrom(p \o net_smtp, 100)
             /\ \A i, j \in 1..Len(got) :
                  (i < j) => /\ IsSmtpByte(got[i]) => ~IsTlsByte(got[j])
                             /\ got[i] = EOF => got[j] = EOF
             /\ receive = TlsReceive => \A i \in 1..Len(got) : IsTlsByte(got[i])
             /\ receive = SmtpReceive => (Unread = <<>> /\ net_tls = <<>>)
             /\ (\E i \in 1..Len(got) : got[i] = EOF) => net_smtp = <<>>)
  /\ [][/\ receive = SmtpReceive => receive' = SmtpReceive
        /\ (ByteWiseOnly /\ receive # receive')
             => /\ Unread = <<>> /\ net_tls = <<>>
                /\ got' = Append(got, IF net_smtp = <<>> THEN EOF ELSE Head(net_smtp))]_vars

\* C16 witness: three bytes came in TLS records of at most two, then the
\* session was closed and two bytes came in clear; five calls returned them.
C16_Witness ==
  /\ ByteWiseOnly
  /\ receive = SmtpReceive
  /\ got = <<1, 2, 3, 101, 102>>

\* C17: after the fallback of tls_getc the five receive functions are the
\* plain ones, the session handle is NULL and every published fact is unset:
\* tls_active -1, tls_bits 0, tls_certificate_verified FALSE, and tls_cipher,
\* tls_channelbinding_b64, tls_peerdn and tls_sni NULL.
C17_FallbackClearsFacts ==
  receive = SmtpReceive =>
    /\ receive.getc = "smtp_getc" /\ receive.ungetc = "smtp_ungetc"
    /\ receive.feof = "smtp_feof" /\ receive.ferror = "smtp_ferror"
    /\ receive.smtp_buffered = "smtp_buffered"
    /\ state_server.session = NULL
    /\ FactsUnset

\* C18, as claimed: tls_write offers the unsent rest of the buffer, in order
\* and without gap or repetition, until all len bytes are accepted, and then
\* returns len; it returns earlier only after a send that answered 0 or less,
\* and then -1; with len 0 it sends nothing and returns 0.
RECURSIVE Accepted(_, _)
Accepted(sends, n) == IF n = 0 THEN 0 ELSE Accepted(sends, n - 1) + sends[n].outbytes

WriteInOrder ==
  /\ wr.len = 0 => (wr.ret = 0 /\ wr.sends = <<>>)
  /\ \A i \in 1..Len(wr.sends) :
       /\ wr.sends[i].off = Accepted(wr.sends, i - 1)
       /\ wr.sends[i].left = wr.len - wr.sends[i].off
       /\ i < Len(wr.sends) => wr.sends[i].outbytes > 0
  /\ wr.ret = -1 <=> (wr.sends # <<>> /\ wr.sends[Len(wr.sends)].outbytes <= 0)
  /\ wr.ret # -1 => Accepted(wr.sends, Len(wr.sends)) = wr.len

C18_Original ==
  /\ WriteInOrder
  /\ wr.ret # -1 => wr.ret = wr.len

\* C18: as C18_Original, but what tls_write returns after sending everything
\* is len only up to INT_MAX, and INT_MAX for a longer buffer.
C18_WriteAll ==
  /\ WriteInOrder
  /\ wr.ret # -1 => wr.ret = Min(wr.len, INT_MAX)

\* C18 witness: three bytes went out one at a time and tls_write returned 3.
C18_Witness ==
  /\ wr.len = 3
  /\ wr.ret = 3
  /\ Len(wr.sends) = 3
  /\ \A i \in 1..3 : wr.sends[i].outbytes = 1

\* C19: the bytes tls_getc has returned from the TLS session are, in order,
\* the first of the bytes given to dkim_exim_verify_feed (the rest of those
\* are the ones still in the transfer buffer); no byte was given twice; and no
\* byte that tls_read delivered was given at all.
C19_DkimFeed ==
  /\ fed = SelectSeq(got, IsTlsByte) \o Unread
  /\ \A i, j \in 1..Len(fed) : i < j => fed[i] < fed[j]
  /\ \A i \in 1..Len(bulk) : \A j \in 1..Len(fed) : bulk[i] # fed[j]

\* C19 witness: tls_read took a record between two refills of tls_getc.
C19_Witness ==
  /\ bulk = <<2>>
  /\ got = <<1, 3>>
  /\ fed = <<1, 3>>

\* C20: a call of vaguely_random_number with max <= 1 returns 0 and asks
\* gnutls_rnd for no octet; a call with max > 1 that got its octets from
\* gnutls_rnd returns a number r with 0 <= r < max, whatever the octets.
C20_RandomInRange ==
  /\ (rnd.pc # "none" /\ rnd.max <= 1) => (rnd.ret = 0 /\ rnd.asked = 0)
  /\ rnd.asked > 0 => rnd.max > 1
  /\ rnd.pc = "rnd" =>
       /\ Len(rnd.smallbuf) = rnd.asked
       /\ 0 <= rnd.ret
       /\ rnd.ret < rnd.max

\* C20 witness: the octets 255 255 (more than INT_MAX where int has two
\* octets) were reduced by max = 1000.
C20_Witness ==
  /\ rnd.pc = "rnd"
  /\ rnd.max = 1000
  /\ rnd.smallbuf = <<255, 255>>
  /\ rnd.ret = 535

\* ------------------------------------------------ teardown: the claims
\* C21: a call of tls_close while tls_active >= 0 does, in this order:
\* gnutls_bye if and only if shutdown was asked for, gnutls_deinit, the memcpy
\* that resets the state block it was working on to exim_gnutls_state_init,
\* and gnutls_global_deinit (with exim_gnutls_base_init_done = FALSE) if and
\* only if after the reset neither state_server nor state_client holds a
\* session; it ends with tls_active = -1.  A call while tls_active < 0
\* changes nothing.
C21_CloseInOrder ==
  /\ [](closed.called =>
          IF closed.entry_active < 0
            THEN closed.steps = <<>>
            ELSE LET release == state_server.session = NULL
                                  /\ state_client.session = NULL
                 IN /\ closed.steps =
                         (IF closed.shutdown THEN <<"gnutls_bye">> ELSE <<>>)
                           \o <<"gnutls_deinit", "memcpy">>
                           \o (IF release THEN <<"gnutls_global_deinit">> ELSE <<>>)
                    /\ State(closed.state) = exim_gnutls_state_init
                    /\ release => ~exim_gnutls_base_init_done
                    /\ tls_active = -1)
  /\ [][(closed'.called /\ closed' # closed) =>
          /\ closed'.entry_active = tls_active
          /\ closed'.entry_active >= 0 => closed'.state = current_global_tls_state
          /\ (closed'.entry_active >= 0
                /\ ~(state_server'.session = NULL /\ state_client'.session = NULL))
               => UNCHANGED exim_gnutls_base_init_done
          /\ closed'.entry_active < 0 => UNCHANGED <<dhVars, sessVars, ioVars, rnd>>]_vars

\* C21 witness: the only live session was closed with shutdown asked for, and
\* the library was released.
C21_Witness ==
  /\ closed.called
  /\ closed.entry_active >= 0
  /\ closed.steps = <<"gnutls_bye", "gnutls_deinit", "memcpy", "gnutls_global_deinit">>
  /\ ~exim_gnutls_base_init_done

Live(r) == State(r).session # NULL

\* C22, as claimed: the server block and the client block never both hold a
\* session.
C22_Original == ~(Live("server") /\ Live("client"))

\* C22: a block gets a session only in tls_init of a start operation for its
\* role, which runs while no other operation is in progress, and for the
\* server only while no session is active (tls_active < 0).  The two blocks
\* can hold a session together.
C22_OneSessionDriven ==
  [][\A r \in Roles :
       (~Live(r) /\ State(r)'.session # NULL) =>
          /\ pc = "tls_init"
          /\ role = r
          /\ op = (IF r = "server" THEN "tls_server_start" ELSE "tls_client_start")
          /\ r = "server" => tls_active < 0]_vars

\* C22 witness: a client start went through while the server session was
\* established; both blocks hold their session and the facts are the client's.
C22_Witness ==
  /\ pc = "idle"
  /\ Live("server")
  /\ Live("client")
  /\ receive = TlsReceive
  /\ current_global_tls_state = "client"
  /\ tls_active = state_client.fd_out

\* ------------------------------------------------ the handshake loop: claims
\* C23: once sigalrm_seen is set, a return of gnutls_handshake is not followed
\* by another call of it, whatever it returned, and a start operation that
\* fails in the loop with sigalrm_seen set reports "timed out"; for the server
\* and for the client.
C23_TimeoutEndsLoop ==
  /\ [][(pc = "in_handshake" /\ sigalrm_seen) => pc' # "handshake"]_vars
  /\ [](\A r \in Roles :
          (pc = "returned" /\ role = r /\ sigalrm_seen
             /\ err \in {"gnutls_handshake", "gnutls_handshake: timed out"})
            => err = "gnutls_handshake: timed out")

HandshakeLabels == {"gnutls_handshake", "gnutls_handshake: timed out"}

\* C24: when tls_server_start returns because its handshake loop ended in
\* failure, it returns FAIL; if sigalrm_seen is not set it has closed smtp_out
\* and smtp_in, as the last thing before returning, and if sigalrm_seen is set
\* it has closed neither.  Nothing else in the start operations closes them.
C24_FailureClosesEndpoints ==
  /\ []((Returned("tls_server_start") /\ err \in HandshakeLabels) =>
          /\ rc = FAIL
          /\ IF sigalrm_seen
               THEN /\ smtp_open
                    /\ ~InTrace("fclose(smtp_out)")
                    /\ ~InTrace("fclose(smtp_in)")
               ELSE /\ ~smtp_open
                    /\ Len(trace) >= 2
                    /\ SubSeq(trace, Len(trace) - 1, Len(trace))
                         = <<"fclose(smtp_out)", "fclose(smtp_in)">>)
  /\ [][smtp_open' # smtp_open =>
          /\ op = "tls_server_start"
          /\ pc = "in_handshake"
          /\ pc' = "returned"
          /\ ~sigalrm_seen]_vars

\* C24 witness: the server handshake failed without a timeout, after the
\* go-ahead, and both endpoints are closed.
C24_Witness ==
  /\ Returned("tls_server_start")
  /\ err = "gnutls_handshake"
  /\ ~sigalrm_seen
  /\ ~smtp_open
  /\ trace = <<"220 TLS go ahead", "gnutls_handshake", "fclose(smtp_out)",
               "fclose(smtp_in)">>

\* C25: "220 TLS go ahead" is sent by tls_server_start only, at most once, in
\* the step after tls_init returned OK (the library initialised, the
\* credentials resolved and bound, the block made the current one), only when
\* tls_on_connect is not set, and then always; it comes before the first call
\* of gnutls_handshake; and a server start that returns DEFER or refuses a
\* re-entry has sent none.
C25_GoAhead ==
  /\ [](/\ InTrace("220 TLS go ahead") =>
             /\ op = "tls_server_start"
             /\ ~call.on_connect
             /\ trace[1] = "220 TLS go ahead"
             /\ \A i \in 2..Len(trace) : trace[i] # "220 TLS go ahead"
        /\ (op = "tls_server_start" /\ InTrace("gnutls_handshake") /\ ~call.on_connect)
             => InTrace("220 TLS go ahead")
        /\ (Returned("tls_server_start")
              /\ (rc = DEFER \/ err = "STARTTLS received after TLS started"))
             => ~InTrace("220 TLS go ahead"))
  /\ [][(~InTrace("220 TLS go ahead") /\ InTrace("220 TLS go ahead")') =>
          /\ pc = "post_init"
          /\ role = "server"
          /\ exim_gnutls_base_init_done
          /\ Live("server")
          /\ state_server.x509_cred.alloc
          /\ bound["server"].cred = state_server.x509_cred
          /\ current_global_tls_state = "server"
          /\ ~InTrace("gnutls_handshake")
          /\ pc' = "handshake"]_vars

\* C25 witness: the go-ahead went out and the first handshake step is under way.
C25_Witness ==
  /\ op = "tls_server_start"
  /\ pc = "in_handshake"
  /\ trace = <<"220 TLS go ahead", "gnutls_handshake">>

\* ------------------------------------------------ the SNI callback: claims
\* The callback has just run and has stored a server name: it was given one
\* of type DNS.  (The block of a server start holds no name before that.)
GotDnsName ==
  ~call.sni_fired /\ call'.sni_fired /\ state_server'.received_sni # NULL

\* The callback has just run and has stored no name: it was given none, an
\* error, or a name of another type.
GotNoDnsName ==
  ~call.sni_fired /\ call'.sni_fired /\ state_server'.received_sni = NULL

\* C26: when the callback gets a DNS server name, the same step stores it in
\* received_sni and in tls_sni, and the re-resolution starts if and only if
\* trigger_sni_changes is set, and only there; while the re-resolution runs
\* tls_sni is the received name, and what it expanded, it expanded with that
\* name.
C26_SniPublishedFirst ==
  /\ [][GotDnsName =>
          /\ state_server'.received_sni \in SniNames
          /\ tls_sni' = state_server'.received_sni
          /\ (caller' = "sni_cb" /\ pc' = "expand") <=> state_server.trigger_sni_changes
          /\ ~state_server.trigger_sni_changes => (pc' = pc /\ caller' = caller)]_vars
  /\ [][(caller # "sni_cb" /\ caller' = "sni_cb") => GotDnsName]_vars
  /\ []((caller = "sni_cb" /\ pc \in {"expand", "set_x509", "dh"}) =>
          /\ tls_sni # NULL
          /\ tls_sni = state_server.received_sni)
  /\ []((caller = "sni_cb" /\ pc \in {"set_x509", "dh"}) =>
          /\ state_server.exp_tls_certificate
               = expand_string(state_server.tls_certificate, state_server.received_sni)
          /\ state_server.x509_cred.certs
               = << <<state_server.exp_tls_certificate,
                      state_server.exp_tls_privatekey>> >>)

\* C26 witness: the name a.example came in, and the re-resolution has loaded
\* the certificate of that name.
C26_Witness ==
  /\ caller = "sni_cb"
  /\ pc = "set_x509"
  /\ tls_sni = "a.example"
  /\ state_server.exp_tls_certificate = "/cert/a.example"

\* The callback's run of the resolver ends in this step.
LeavesResolver ==
  caller = "sni_cb" /\ pc \in {"expand", "set_x509", "dh"} /\ pc' = "in_handshake"

\* C27: the callback returns GNUTLS_E_APPLICATION_ERROR_MIN only out of a
\* re-resolution it started (a DNS name received, the flag set), and out of
\* every one that failed: a re-resolution ends either with that error or with
\* the newly resolved credentials bound; after the error the handshake fails
\* and tls_server_start returns FAIL.  When gnutls_server_name_get gives no
\* name, an error, or a name of another type, the callback returns 0 and
\* received_sni (NULL until then), tls_sni and the bound credentials stay as
\* they were.
C27_CallbackAborts ==
  /\ [](call.cb_failed =>
          /\ caller = "sni_cb"
          /\ state_server.received_sni \in SniNames
          /\ state_server.trigger_sni_changes)
  /\ [][(~call.cb_failed /\ call'.cb_failed) => LeavesResolver]_vars
  /\ [][LeavesResolver =>
          \/ call'.cb_failed /\ UNCHANGED bound
          \/ /\ ~call'.cb_failed
             /\ bound'["server"].cred = state_server'.x509_cred
             /\ bound'["server"].dh = x509_dh'[Self]]_vars
  /\ [][(pc = "in_handshake" /\ call.cb_failed /\ pc' # pc) =>
          (pc' = "returned" /\ rc' = FAIL)]_vars
  /\ [][GotNoDnsName =>
          /\ ~call'.cb_failed
          /\ UNCHANGED <<state_server, tls_sni, bound, pc, caller>>]_vars
  /\ []((role = "server" /\ pc \in {"expand", "set_x509", "dh", "init_rest",
                                      "post_init", "handshake", "in_handshake"}
           /\ ~call.sni_fired)
          => state_server.received_sni = NULL)

\* C27 witness: the name b.example came in, its certificate could not be
\* loaded, and the callback has returned the error to the engine.
C27_Witness ==
  /\ pc = "in_handshake"
  /\ call.cb_failed
  /\ tls_sni = "b.example"
  /\ state_server.exp_tls_certificate = "/cert/b.example"

\* A setting whose expansion changes with the server name.
DependsOnSni(t) ==
  t # NULL /\ \E n \in SniNames : expand_string(t, n) # expand_string(t, NULL)

\* The initial resolution of the server block has made its test.
InitiallyResolved ==
  Live("server") /\ ~(pc = "expand" /\ role = "server" /\ caller = "tls_init")

\* The flag changes only in the first step of the initial resolution of a
\* server start, which sets it, and in the resets of the block by tls_init and
\* tls_close, which clear it.
TriggerSetOnce ==
  /\ [](~state_client.trigger_sni_changes)
  /\ [](~InitiallyResolved => ~state_server.trigger_sni_changes)
  /\ [][state_server'.trigger_sni_changes # state_server.trigger_sni_changes =>
          \/ /\ state_server'.trigger_sni_changes
             /\ pc = "expand" /\ role = "server" /\ caller = "tls_init"
          \/ /\ ~state_server'.trigger_sni_changes
             /\ \/ pc = "tls_init" /\ role = "server"
                \/ state_server' = exim_gnutls_state_init]_vars

CurrentState == State(current_global_tls_state)

\* A call of tls_getc returns EOF and the receive functions stay the TLS ones.
GetcReturnsError ==
  receive.getc = "tls_getc" /\ got' = Append(got, EOF) /\ receive' = receive

\* C29: a call of tls_getc that returns EOF without leaving TLS has set
\* xfer_error and changed nothing else: the receive functions, tls_active and
\* the other facts, the session handle and the two buffer cursors are as
\* before, and no byte was taken from the transport; xfer_error, once set,
\* stays set; and the receive functions change only when the TLS stream was at
\* its end, never after a failed read in the middle of it.
C29_ReadErrorMarks ==
  /\ [][GetcReturnsError =>
          /\ CurrentState'.xfer_error = 1
          /\ CurrentState' = [CurrentState EXCEPT !.xfer_error = 1]
          /\ UNCHANGED <<factVars, receive, current_global_tls_state, net_tls,
                         net_smtp, xfer_data, fed>>]_vars
  /\ [][CurrentState.xfer_error = 1 => CurrentState'.xfer_error = 1]_vars
  /\ [][receive' # receive => (net_tls = <<>> /\ Unread = <<>>)]_vars
  /\ [](\A i \in 1..Len(got) :
          (got[i] = EOF /\ receive = TlsReceive) => CurrentState.xfer_error = 1)

\* C29 witness: a read failed after one byte, with more waiting; the session
\* is marked and TLS is still on.
C29_Witness ==
  /\ got = <<1, EOF>>
  /\ CurrentState.xfer_error = 1
  /\ receive = TlsReceive
  /\ CurrentState.session # NULL
  /\ tls_active >= 0
  /\ net_tls # <<>>

\* tls_read has just returned after gnutls_record_recv gave it 0.
ReadSawClose == rd' # rd /\ rd'.len > 0 /\ rd'.inbytes = 0

\* tls_getc was called with nothing buffered and the TLS stream at its end.
GetcAtClose ==
  /\ receive.getc = "tls_getc"
  /\ Len(got') = Len(got) + 1
  /\ net_tls = <<>>
  /\ Unread = <<>>

\* What the fallback does.
FellBack ==
  /\ receive' = SmtpReceive
  /\ CurrentState'.session = NULL
  /\ tls_active' = -1
  /\ CurrentState'.xfer_error = CurrentState.xfer_error

\* tls_getc at the end of the TLS stream falls back to the plain transport
\* without marking the session, unless the read failed.
GetcFallsBack ==
  [][GetcAtClose =>
       \/ FellBack
       \/ (receive' = receive /\ got' = Append(got, EOF)
             /\ CurrentState'.xfer_error = 1)]_vars

\* C30, as claimed: a zero-length read is not reported as an error and starts
\* the fallback, in tls_getc and in tls_read.
C30_Original ==
  /\ GetcFallsBack
  /\ [][ReadSawClose =>
          /\ ~rd'.io_error
          /\ rd'.ret # -1
          /\ FellBack]_vars

\* C30: a zero-length read is never given to record_io_error.  In tls_getc it
\* starts the fallback; in tls_read it does not: tls_read returns -1 and
\* leaves the receive functions, the session and the facts as they were.
C30_OrderlyClose ==
  /\ GetcFallsBack
  /\ [][ReadSawClose =>
          /\ ~rd'.io_error
          /\ rd'.ret = -1
          /\ UNCHANGED <<factVars, receive, state_server, state_client, bulk>>]_vars

\* C30 witness: tls_read saw the close and returned -1 with TLS still on.
C30_Witness ==
  /\ rd.len > 0
  /\ rd.inbytes = 0
  /\ rd.ret = -1
  /\ receive = TlsReceive
  /\ CurrentState.session # NULL
  /\ got = <<1, 2>>

\* ------------------------------------------------------------------- C31
\* The position of the last "/" of a name, 0 when it has none.
LastSlash(name) ==
  IF \E i \in 1..Len(name) : name[i] = "/"
    THEN CHOOSE i \in 1..Len(name) :
           name[i] = "/" /\ \A j \in (i + 1)..Len(name) : name[j] # "/"
    ELSE 0

\* The directory in which a process with current directory cwd finds name.
DirOf(name, cwd) ==
  LET k == LastSlash(name) IN
  IF k = 0 THEN cwd
  ELSE IF name[1] = "/" THEN (IF k = 1 THEN <<"/">> ELSE SubSeq(name, 1, k - 1))
  ELSE cwd \o <<"/">> \o SubSeq(name, 1, k - 1)

IsPrefix(a, b) == Len(a) <= Len(b) /\ SubSeq(b, 1, Len(a)) = a

\* C31: the temporary file of a regeneration has a name that starts with the
\* path of the cache file and lies in the directory of the cache file, so the
\* rename onto the cache path stays within one directory.
C31_TempBesideCache ==
  \A p \in Procs :
    temp[p].exists =>
      /\ IsPrefix(filename, temp[p].fn)
      /\ DirOf(temp[p].fn, temp[p].cwd) = DirOf(filename, temp[p].cwd)

\* What holds instead of C31: the name of the temporary file is the literal
\* template with its last six X replaced, a relative name, so the file lies in
\* the current directory of the process.
C31_TempInWorkingDir ==
  \A p \in Procs :
    temp[p].exists =>
      /\ temp[p].fn = <<"%s", ".", "X", ToString(p)>>
      /\ DirOf(temp[p].fn, temp[p].cwd) = temp[p].cwd
      /\ filename = <<"/", "spool", "/", "gnutls-params-", "bits">>

\* ------------------------------------------------------------------- C32
\* The session of role r is the one the published facts describe.
Published(r) ==
  /\ Live(r)
  /\ State(r).fd_out >= 0
  /\ tls_active = State(r).fd_out

\* C32: a start operation under VERIFY_REQUIRED that returns OK has recorded
\* the peer certificate as verified and has published that, with tls_active
\* the descriptor of its session; and in every state in which the published
\* facts describe a session held under VERIFY_REQUIRED,
\* tls_certificate_verified is TRUE.  This holds for both roles.
C32_RequiredMeansVerified ==
  /\ (pc = "returned" /\ rc = OK /\ State(role).verify_requirement = VERIFY_REQUIRED)
       => /\ State(role).peer_cert_verified
          /\ tls_certificate_verified
          /\ Published(role)
  /\ \A r \in Roles :
       (Published(r) /\ State(r).verify_requirement = VERIFY_REQUIRED)
         => tls_certificate_verified

\* C32 witness: a server session and then a client session were established,
\* both under VERIFY_REQUIRED, and the client start has just returned OK.
C32_Witness ==
  /\ pc = "returned"
  /\ rc = OK
  /\ role = "client"
  /\ state_client.verify_requirement = VERIFY_REQUIRED
  /\ Live("server")
  /\ state_server.verify_requirement = VERIFY_REQUIRED
  /\ state_server.peer_cert_verified
  /\ tls_certificate_verified

\* ------------------------------------------------------------------- C33
\* C33: the D-H parameters attached to a server credential set are always
\* parameters that were imported from the cache file or generated; and a
\* server start in a process whose last init_server_dh failed runs
\* init_server_dh again.
C33_AttachedParamsUsable ==
  /\ [](\A p \in Procs : x509_dh[p].set => x509_dh[p].val \in ParamVals)
  /\ [][\A p \in Procs :
          (dpc[p] = "idle" /\ dpc'[p] # "idle" /\ dh_rc[p] \notin {OK, "none"})
            => dpc'[p] = "init"]_vars

\* ------------------------------------------------------------------- C34
\* The server start has returned OK and its session has not been closed.
ServerEstablished ==
  /\ state_server.session # NULL
  /\ state_server.xfer_buffer # NULL

\* C34: while a server session is established, a client start that fails and
\* a tls_close that closes a client session both leave
\* current_global_tls_state naming the server block and tls_active equal to
\* the server's descriptor.
C34_ServerSessionRestored ==
  /\ [][(ServerEstablished /\ op = "tls_client_start"
           /\ pc # "returned" /\ pc' = "returned" /\ rc' # OK)
          => /\ current_global_tls_state' = "server"
             /\ tls_active' = state_server'.fd_out]_vars
  /\ [][(ServerEstablished /\ closed'.called /\ closed' # closed
           /\ closed'.state = "client")
          => /\ current_global_tls_state' = "server"
             /\ tls_active' = state_server'.fd_out]_vars

\* ------------------------------------------------------------------- C35
\* C35: in every state in which no start operation is in progress and neither
\* state block holds a session, the library's global resources have been
\* released: exim_gnutls_base_init_done is FALSE.
C35_ReleasedWhenNoSession ==
  (pc \in {"idle", "returned"} /\ ~Live("server") /\ ~Live("client"))
    => ~exim_gnutls_base_init_done

\* ------------------------------------------------------------------- C36
\* C36: when tls_init of a server start expands the credential settings, the
\* published tls_sni is unset: no server name of an earlier session is seen.
C36_FreshServerName ==
  (pc = "expand" /\ role = "server" /\ caller = "tls_init") => tls_sni = NULL

\* ------------------------------------------------------------------- C37
\* A call of tls_getc: receive_getc is tls_getc and a result is recorded.
GetcCall == receive.getc = "tls_getc" /\ Len(got') = Len(got) + 1

\* The call asked the engine for a record: it took bytes from the peer, fell
\* back to clear text, or returned EOF for a read error.
AskedEngine ==
  \/ net_tls' # net_tls
  \/ receive' # receive
  \/ got'[Len(got')] = EOF

\* C37: in every state of the established server session
\* 0 <= xfer_buffer_lwm <= xfer_buffer_hwm <= ssl_xfer_buffer_size and the
\* buffer holds exactly the xfer_buffer_hwm bytes of the latest record; a byte
\* that tls_getc returns is the byte of that record at the position the low
\* watermark has just passed, a position below the high watermark; and
\* tls_getc asks the engine for a record only when
\* xfer_buffer_lwm >= xfer_buffer_hwm.
C37_BufferCursors ==
  /\ [](/\ 0 <= state_server.xfer_buffer_lwm
        /\ state_server.xfer_buffer_lwm <= state_server.xfer_buffer_hwm
        /\ state_server.xfer_buffer_hwm <= ssl_xfer_buffer_size
        /\ state_server.xfer_buffer_hwm = Len(xfer_data))
  /\ [][(GetcCall /\ receive'.getc = "tls_getc" /\ got'[Len(got')] # EOF)
          => /\ state_server'.xfer_buffer_lwm >= 1
             /\ state_server'.xfer_buffer_lwm - 1 < state_server'.xfer_buffer_hwm
             /\ got'[Len(got')] = xfer_data'[state_server'.xfer_buffer_lwm]
             /\ AskedEngine \/ (xfer_data' = xfer_data
                                 /\ state_server'.xfer_buffer_lwm
                                      = state_server.xfer_buffer_lwm + 1)]_vars
  /\ [][(GetcCall /\ AskedEngine)
          => state_server.xfer_buffer_lwm >= state_server.xfer_buffer_hwm]_vars

\* C37 witness: a record of two bytes filled the buffer, both were returned,
\* and the next record, of one byte, has replaced it and been returned.
C37_Witness ==
  /\ got = <<1, 2, 3>>
  /\ xfer_data = <<3>>
  /\ state_server.xfer_buffer_lwm = 1
  /\ state_server.xfer_buffer_hwm = 1

\* ------------------------------------------------------------------- C38
\* C38: under VERIFY_NONE the start operation passes the verification step
\* without running verify_certificate: the state block, the published facts
\* and the count of certificate parses are as before and peer_status is next.
\* So a start operation under VERIFY_NONE that returns OK has
\* peer_cert_verified FALSE and has published tls_certificate_verified FALSE,
\* and in every state in which the published facts describe a session held
\* under VERIFY_NONE, tls_certificate_verified is FALSE.  This holds for both
\* roles and for every kind of peer certificate.
C38_NoneMeansUnverified ==
  /\ []((pc = "returned" /\ rc = OK /\ State(role).verify_requirement = VERIFY_NONE)
          => /\ ~State(role).peer_cert_verified
             /\ ~tls_certificate_verified
             /\ Published(role))
  /\ [](\A r \in Roles :
          (Published(r) /\ State(r).verify_requirement = VERIFY_NONE)
            => ~tls_certificate_verified)
  /\ [][(pc = "verify" /\ State(role).verify_requirement = VERIFY_NONE)
          => /\ pc' = "peer_status"
             /\ UNCHANGED <<state_server, state_client, factVars, parses, trace>>]_vars

\* C38 witness: a server session under VERIFY_NONE is established, and a
\* client with no trust path has just been given a session by a peer that
\* presented an X.509 certificate; its subject is published, the flag is FALSE.
C38_Witness ==
  /\ pc = "returned"
  /\ rc = OK
  /\ role = "client"
  /\ cfg.verify_certificates = NULL
  /\ state_client.verify_requirement = VERIFY_NONE
  /\ peer["client"] = "x509"
  /\ tls_peerdn # NULL
  /\ ~tls_certificate_verified
  /\ Live("server")
  /\ state_server.verify_requirement = VERIFY_NONE
====
